---- MODULE Spec2Model ----
(***************************************************************************)
(* A model of go-cliapp (src/cliapp.go): the command registry (App.Add),   *)
(* the resolve / bind / invoke pipeline (App.Run), the record binder       *)
(* (buildFieldMaps, parseStructArgs) and the coercions (parseValue).       *)
(*                                                                         *)
(* Strings are sequences of one-character strings, so that splitting,     *)
(* prefix tests and numeric parsing are computed character by character,  *)
(* the way the Go code computes them.                                      *)
(***************************************************************************)
EXTENDS Integers, Sequences, FiniteSets, TLC

(***************************************************************************)
(* Bounds of the model.                                                    *)
(***************************************************************************)
MaxCmds == 2
MaxArgs == 3
MaxRest == 3
MaxOpts == 3

(***************************************************************************)
(* Characters and the string functions of the Go standard library that     *)
(* the program calls.                                                      *)
(***************************************************************************)
Digits == <<"0", "1", "2", "3", "4", "5", "6", "7", "8", "9">>
UpperChars == <<"A", "B", "C", "D", "E", "F", "G", "H", "I", "J", "K", "L", "M",
                "N", "O", "P", "Q", "R", "S", "T", "U", "V", "W", "X", "Y", "Z">>
LowerChars == <<"a", "b", "c", "d", "e", "f", "g", "h", "i", "j", "k", "l", "m",
                "n", "o", "p", "q", "r", "s", "t", "u", "v", "w", "x", "y", "z">>

Range(s) == {s[i] : i \in 1..Len(s)}

\* A character is a one-character string.  A character that a string of this
\* module cannot hold is written as its code point: "U+2028".
\*
\* The upper-case letters outside A-Z (the Unicode category Lu) and, at the
\* same index, what unicode.ToLower gives for each (the simple lower-case
\* mapping; the letter itself where there is none).
UpperOther ==
  <<
    "À", "Á", "Â", "Ã", "Ä", "Å", "Æ", "Ç", "È", "É", "Ê", "Ë",
    "Ì", "Í", "Î", "Ï", "Ð", "Ñ", "Ò", "Ó", "Ô", "Õ", "Ö", "Ø",
    "Ù", "Ú", "Û", "Ü", "Ý", "Þ", "U+0100", "U+0102", "U+0104", "U+0106", "U+0108", "U+010A",
    "U+010C", "U+010E", "U+0110", "U+0112", "U+0114", "U+0116", "U+0118", "U+011A", "U+011C", "U+011E", "U+0120", "U+0122",
    "U+0124", "U+0126", "U+0128", "U+012A", "U+012C", "U+012E", "U+0130", "U+0132", "U+0134", "U+0136", "U+0139", "U+013B",
    "U+013D", "U+013F", "U+0141", "U+0143", "U+0145", "U+0147", "U+014A", "U+014C", "U+014E", "U+0150", "U+0152", "U+0154",
    "U+0156", "U+0158", "U+015A", "U+015C", "U+015E", "U+0160", "U+0162", "U+0164", "U+0166", "U+0168", "U+016A", "U+016C",
    "U+016E", "U+0170", "U+0172", "U+0174", "U+0176", "U+0178", "U+0179", "U+017B", "U+017D", "Ɓ", "Ƃ", "Ƅ",
    "Ɔ", "Ƈ", "Ɖ", "Ɗ", "Ƌ", "Ǝ", "Ə", "Ɛ", "Ƒ", "Ɠ", "Ɣ", "Ɩ",
    "Ɨ", "Ƙ", "Ɯ", "Ɲ", "Ɵ", "Ơ", "Ƣ", "Ƥ", "Ʀ", "Ƨ", "Ʃ", "Ƭ",
    "Ʈ", "Ư", "Ʊ", "Ʋ", "Ƴ", "Ƶ", "Ʒ", "Ƹ", "Ƽ", "Ǆ", "Ǉ", "Ǌ",
    "Ǎ", "Ǐ", "Ǒ", "Ǔ", "Ǖ", "Ǘ", "Ǚ", "Ǜ", "Ǟ", "Ǡ", "Ǣ", "Ǥ",
    "Ǧ", "Ǩ", "Ǫ", "Ǭ", "Ǯ", "Ǳ", "Ǵ", "Ƕ", "Ƿ", "Ǹ", "Ǻ", "Ǽ",
    "Ǿ", "U+0200", "U+0202", "U+0204", "U+0206", "U+0208", "U+020A", "U+020C", "U+020E", "U+0210", "U+0212", "U+0214",
    "U+0216", "U+0218", "U+021A", "U+021C", "U+021E", "U+0220", "U+0222", "U+0224", "U+0226", "U+0228", "U+022A", "U+022C",
    "U+022E", "U+0230", "U+0232", "U+023A", "U+023B", "U+023D", "U+023E", "U+0241", "U+0243", "U+0244", "U+0245", "U+0246",
    "U+0248", "U+024A", "U+024C", "U+024E", "U+0370", "U+0372", "U+0376", "U+037F", "Ά", "Έ", "Ή", "Ί",
    "Ό", "Ύ", "Ώ", "Α", "Β", "Γ", "Δ", "Ε", "Ζ", "Η", "Θ", "Ι",
    "Κ", "Λ", "Μ", "Ν", "Ξ", "Ο", "Π", "Ρ", "Σ", "Τ", "Υ", "Φ",
    "Χ", "Ψ", "Ω", "Ϊ", "Ϋ", "Ϗ", "ϒ", "ϓ", "ϔ", "Ϙ", "Ϛ", "Ϝ",
    "Ϟ", "Ϡ", "Ϣ", "Ϥ", "Ϧ", "Ϩ", "Ϫ", "Ϭ", "Ϯ", "ϴ", "Ϸ", "Ϲ",
    "Ϻ", "Ͻ", "Ͼ", "Ͽ", "U+0400", "U+0401", "U+0402", "U+0403", "U+0404", "U+0405", "U+0406", "U+0407",
    "U+0408", "U+0409", "U+040A", "U+040B", "U+040C", "U+040D", "U+040E", "U+040F", "U+0410", "U+0411", "U+0412", "U+0413",
    "U+0414", "U+0415", "U+0416", "U+0417", "U+0418", "U+0419", "U+041A", "U+041B", "U+041C", "U+041D", "U+041E", "U+041F",
    "U+0420", "U+0421", "U+0422", "U+0423", "U+0424", "U+0425", "U+0426", "U+0427", "U+0428", "U+0429", "U+042A", "U+042B",
    "U+042C", "U+042D", "U+042E", "U+042F", "U+0460", "U+0462", "U+0464", "U+0466", "U+0468", "U+046A", "U+046C", "U+046E",
    "U+0470", "U+0472", "U+0474", "U+0476", "U+0478", "U+047A", "U+047C", "U+047E", "Ҁ", "Ҋ", "Ҍ", "Ҏ",
    "Ґ", "Ғ", "Ҕ", "Җ", "Ҙ", "Қ", "Ҝ", "Ҟ", "Ҡ", "Ң", "Ҥ", "Ҧ",
    "Ҩ", "Ҫ", "Ҭ", "Ү", "Ұ", "Ҳ", "Ҵ", "Ҷ", "Ҹ", "Һ", "Ҽ", "Ҿ",
    "Ӏ", "Ӂ", "Ӄ", "Ӆ", "Ӈ", "Ӊ", "Ӌ", "Ӎ", "Ӑ", "Ӓ", "Ӕ", "Ӗ",
    "Ә", "Ӛ", "Ӝ", "Ӟ", "Ӡ", "Ӣ", "Ӥ", "Ӧ", "Ө", "Ӫ", "Ӭ", "Ӯ",
    "Ӱ", "Ӳ", "Ӵ", "Ӷ", "Ӹ", "Ӻ", "Ӽ", "Ӿ", "U+0500", "U+0502", "U+0504", "U+0506",
    "U+0508", "U+050A", "U+050C", "U+050E", "U+0510", "U+0512", "U+0514", "U+0516", "U+0518", "U+051A", "U+051C", "U+051E",
    "U+0520", "U+0522", "U+0524", "U+0526", "U+0528", "U+052A", "U+052C", "U+052E", "U+0531", "U+0532", "U+0533", "U+0534",
    "U+0535", "U+0536", "U+0537", "U+0538", "U+0539", "U+053A", "U+053B", "U+053C", "U+053D", "U+053E", "U+053F", "U+0540",
    "U+0541", "U+0542", "U+0543", "U+0544", "U+0545", "U+0546", "U+0547", "U+0548", "U+0549", "U+054A", "U+054B", "U+054C",
    "U+054D", "U+054E", "U+054F", "U+0550", "U+0551", "U+0552", "U+0553", "U+0554", "U+0555", "U+0556", "Ⴀ", "Ⴁ",
    "Ⴂ", "Ⴃ", "Ⴄ", "Ⴅ", "Ⴆ", "Ⴇ", "Ⴈ", "Ⴉ", "Ⴊ", "Ⴋ", "Ⴌ", "Ⴍ",
    "Ⴎ", "Ⴏ", "Ⴐ", "Ⴑ", "Ⴒ", "Ⴓ", "Ⴔ", "Ⴕ", "Ⴖ", "Ⴗ", "Ⴘ", "Ⴙ",
    "Ⴚ", "Ⴛ", "Ⴜ", "Ⴝ", "Ⴞ", "Ⴟ", "Ⴠ", "Ⴡ", "Ⴢ", "Ⴣ", "Ⴤ", "Ⴥ",
    "Ⴧ", "Ⴭ", "Ꭰ", "Ꭱ", "Ꭲ", "Ꭳ", "Ꭴ", "Ꭵ", "Ꭶ", "Ꭷ", "Ꭸ", "Ꭹ",
    "Ꭺ", "Ꭻ", "Ꭼ", "Ꭽ", "Ꭾ", "Ꭿ", "Ꮀ", "Ꮁ", "Ꮂ", "Ꮃ", "Ꮄ", "Ꮅ",
    "Ꮆ", "Ꮇ", "Ꮈ", "Ꮉ", "Ꮊ", "Ꮋ", "Ꮌ", "Ꮍ", "Ꮎ", "Ꮏ", "Ꮐ", "Ꮑ",
    "Ꮒ", "Ꮓ", "Ꮔ", "Ꮕ", "Ꮖ", "Ꮗ", "Ꮘ", "Ꮙ", "Ꮚ", "Ꮛ", "Ꮜ", "Ꮝ",
    "Ꮞ", "Ꮟ", "Ꮠ", "Ꮡ", "Ꮢ", "Ꮣ", "Ꮤ", "Ꮥ", "Ꮦ", "Ꮧ", "Ꮨ", "Ꮩ",
    "Ꮪ", "Ꮫ", "Ꮬ", "Ꮭ", "Ꮮ", "Ꮯ", "Ꮰ", "Ꮱ", "Ꮲ", "Ꮳ", "Ꮴ", "Ꮵ",
    "Ꮶ", "Ꮷ", "Ꮸ", "Ꮹ", "Ꮺ", "Ꮻ", "Ꮼ", "Ꮽ", "Ꮾ", "Ꮿ", "Ᏸ", "Ᏹ",
    "Ᏺ", "Ᏻ", "Ᏼ", "Ᏽ", "Ა", "Ბ", "Გ", "Დ", "Ე", "Ვ", "Ზ", "Თ",
    "Ი", "Კ", "Ლ", "Მ", "Ნ", "Ო", "Პ", "Ჟ", "Რ", "Ს", "Ტ", "Უ",
    "Ფ", "Ქ", "Ღ", "Ყ", "Შ", "Ჩ", "Ც", "Ძ", "Წ", "Ჭ", "Ხ", "Ჯ",
    "Ჰ", "Ჱ", "Ჲ", "Ჳ", "Ჴ", "Ჵ", "Ჶ", "Ჷ", "Ჸ", "Ჹ", "Ჺ", "Ჽ",
    "Ჾ", "Ჿ", "U+1E00", "U+1E02", "U+1E04", "U+1E06", "U+1E08", "U+1E0A", "U+1E0C", "U+1E0E", "U+1E10", "U+1E12",
    "U+1E14", "U+1E16", "U+1E18", "U+1E1A", "U+1E1C", "U+1E1E", "U+1E20", "U+1E22", "U+1E24", "U+1E26", "U+1E28", "U+1E2A",
    "U+1E2C", "U+1E2E", "U+1E30", "U+1E32", "U+1E34", "U+1E36", "U+1E38", "U+1E3A", "U+1E3C", "U+1E3E", "U+1E40", "U+1E42",
    "U+1E44", "U+1E46", "U+1E48", "U+1E4A", "U+1E4C", "U+1E4E", "U+1E50", "U+1E52", "U+1E54", "U+1E56", "U+1E58", "U+1E5A",
    "U+1E5C", "U+1E5E", "U+1E60", "U+1E62", "U+1E64", "U+1E66", "U+1E68", "U+1E6A", "U+1E6C", "U+1E6E", "U+1E70", "U+1E72",
    "U+1E74", "U+1E76", "U+1E78", "U+1E7A", "U+1E7C", "U+1E7E", "Ẁ", "Ẃ", "Ẅ", "Ẇ", "Ẉ", "Ẋ",
    "Ẍ", "Ẏ", "Ẑ", "Ẓ", "Ẕ", "ẞ", "Ạ", "Ả", "Ấ", "Ầ", "Ẩ", "Ẫ",
    "Ậ", "Ắ", "Ằ", "Ẳ", "Ẵ", "Ặ", "Ẹ", "Ẻ", "Ẽ", "Ế", "Ề", "Ể",
    "Ễ", "Ệ", "Ỉ", "Ị", "Ọ", "Ỏ", "Ố", "Ồ", "Ổ", "Ỗ", "Ộ", "Ớ",
    "Ờ", "Ở", "Ỡ", "Ợ", "Ụ", "Ủ", "Ứ", "Ừ", "Ử", "Ữ", "Ự", "Ỳ",
    "Ỵ", "Ỷ", "Ỹ", "Ỻ", "Ỽ", "Ỿ", "U+1F08", "U+1F09", "U+1F0A", "U+1F0B", "U+1F0C", "U+1F0D",
    "U+1F0E", "U+1F0F", "U+1F18", "U+1F19", "U+1F1A", "U+1F1B", "U+1F1C", "U+1F1D", "U+1F28", "U+1F29", "U+1F2A", "U+1F2B",
    "U+1F2C", "U+1F2D", "U+1F2E", "U+1F2F", "U+1F38", "U+1F39", "U+1F3A", "U+1F3B", "U+1F3C", "U+1F3D", "U+1F3E", "U+1F3F",
    "U+1F48", "U+1F49", "U+1F4A", "U+1F4B", "U+1F4C", "U+1F4D", "U+1F59", "U+1F5B", "U+1F5D", "U+1F5F", "U+1F68", "U+1F69",
    "U+1F6A", "U+1F6B", "U+1F6C", "U+1F6D", "U+1F6E", "U+1F6F", "Ᾰ", "Ᾱ", "Ὰ", "Ά", "Ὲ", "Έ",
    "Ὴ", "Ή", "Ῐ", "Ῑ", "Ὶ", "Ί", "Ῠ", "Ῡ", "Ὺ", "Ύ", "Ῥ", "Ὸ",
    "Ό", "Ὼ", "Ώ", "U+2102", "U+2107", "U+210B", "U+210C", "U+210D", "U+2110", "U+2111", "U+2112", "U+2115",
    "U+2119", "U+211A", "U+211B", "U+211C", "U+211D", "U+2124", "U+2126", "U+2128", "U+212A", "U+212B", "U+212C", "U+212D",
    "U+2130", "U+2131", "U+2132", "U+2133", "U+213E", "U+213F", "U+2145", "Ↄ", "U+2C00", "U+2C01", "U+2C02", "U+2C03",
    "U+2C04", "U+2C05", "U+2C06", "U+2C07", "U+2C08", "U+2C09", "U+2C0A", "U+2C0B", "U+2C0C", "U+2C0D", "U+2C0E", "U+2C0F",
    "U+2C10", "U+2C11", "U+2C12", "U+2C13", "U+2C14", "U+2C15", "U+2C16", "U+2C17", "U+2C18", "U+2C19", "U+2C1A", "U+2C1B",
    "U+2C1C", "U+2C1D", "U+2C1E", "U+2C1F", "U+2C20", "U+2C21", "U+2C22", "U+2C23", "U+2C24", "U+2C25", "U+2C26", "U+2C27",
    "U+2C28", "U+2C29", "U+2C2A", "U+2C2B", "U+2C2C", "U+2C2D", "U+2C2E", "U+2C2F", "U+2C60", "U+2C62", "U+2C63", "U+2C64",
    "U+2C67", "U+2C69", "U+2C6B", "U+2C6D", "U+2C6E", "U+2C6F", "U+2C70", "U+2C72", "U+2C75", "U+2C7E", "U+2C7F", "Ⲁ",
    "Ⲃ", "Ⲅ", "Ⲇ", "Ⲉ", "Ⲋ", "Ⲍ", "Ⲏ", "Ⲑ", "Ⲓ", "Ⲕ", "Ⲗ", "Ⲙ",
    "Ⲛ", "Ⲝ", "Ⲟ", "Ⲡ", "Ⲣ", "Ⲥ", "Ⲧ", "Ⲩ", "Ⲫ", "Ⲭ", "Ⲯ", "Ⲱ",
    "Ⲳ", "Ⲵ", "Ⲷ", "Ⲹ", "Ⲻ", "Ⲽ", "Ⲿ", "Ⳁ", "Ⳃ", "Ⳅ", "Ⳇ", "Ⳉ",
    "Ⳋ", "Ⳍ", "Ⳏ", "Ⳑ", "Ⳓ", "Ⳕ", "Ⳗ", "Ⳙ", "Ⳛ", "Ⳝ", "Ⳟ", "Ⳡ",
    "Ⳣ", "Ⳬ", "Ⳮ", "Ⳳ", "U+A640", "U+A642", "U+A644", "U+A646", "U+A648", "U+A64A", "U+A64C", "U+A64E",
    "U+A650", "U+A652", "U+A654", "U+A656", "U+A658", "U+A65A", "U+A65C", "U+A65E", "U+A660", "U+A662", "U+A664", "U+A666",
    "U+A668", "U+A66A", "U+A66C", "Ꚁ", "Ꚃ", "Ꚅ", "Ꚇ", "Ꚉ", "Ꚋ", "Ꚍ", "Ꚏ", "Ꚑ",
    "Ꚓ", "Ꚕ", "Ꚗ", "Ꚙ", "Ꚛ", "U+A722", "U+A724", "U+A726", "U+A728", "U+A72A", "U+A72C", "U+A72E",
    "U+A732", "U+A734", "U+A736", "U+A738", "U+A73A", "U+A73C", "U+A73E", "U+A740", "U+A742", "U+A744", "U+A746", "U+A748",
    "U+A74A", "U+A74C", "U+A74E", "U+A750", "U+A752", "U+A754", "U+A756", "U+A758", "U+A75A", "U+A75C", "U+A75E", "U+A760",
    "U+A762", "U+A764", "U+A766", "U+A768", "U+A76A", "U+A76C", "U+A76E", "U+A779", "U+A77B", "U+A77D", "U+A77E", "Ꞁ",
    "Ꞃ", "Ꞅ", "Ꞇ", "Ꞌ", "Ɥ", "Ꞑ", "Ꞓ", "Ꞗ", "Ꞙ", "Ꞛ", "Ꞝ", "Ꞟ",
    "Ꞡ", "Ꞣ", "Ꞥ", "Ꞧ", "Ꞩ", "Ɦ", "Ɜ", "Ɡ", "Ɬ", "Ɪ", "Ʞ", "Ʇ",
    "Ʝ", "Ꭓ", "Ꞵ", "Ꞷ", "Ꞹ", "Ꞻ", "Ꞽ", "Ꞿ", "Ꟁ", "Ꟃ", "Ꞔ", "Ʂ",
    "Ᶎ", "Ꟈ", "Ꟊ", "Ꟑ", "Ꟗ", "Ꟙ", "Ꟶ", "U+FF21", "U+FF22", "U+FF23", "U+FF24", "U+FF25",
    "U+FF26", "U+FF27", "U+FF28", "U+FF29", "U+FF2A", "U+FF2B", "U+FF2C", "U+FF2D", "U+FF2E", "U+FF2F", "U+FF30", "U+FF31",
    "U+FF32", "U+FF33", "U+FF34", "U+FF35", "U+FF36", "U+FF37", "U+FF38", "U+FF39", "U+FF3A", "U+10400", "U+10401", "U+10402",
    "U+10403", "U+10404", "U+10405", "U+10406", "U+10407", "U+10408", "U+10409", "U+1040A", "U+1040B", "U+1040C", "U+1040D", "U+1040E",
    "U+1040F", "U+10410", "U+10411", "U+10412", "U+10413", "U+10414", "U+10415", "U+10416", "U+10417", "U+10418", "U+10419", "U+1041A",
    "U+1041B", "U+1041C", "U+1041D", "U+1041E", "U+1041F", "U+10420", "U+10421", "U+10422", "U+10423", "U+10424", "U+10425", "U+10426",
    "U+10427", "U+104B0", "U+104B1", "U+104B2", "U+104B3", "U+104B4", "U+104B5", "U+104B6", "U+104B7", "U+104B8", "U+104B9", "U+104BA",
    "U+104BB", "U+104BC", "U+104BD", "U+104BE", "U+104BF", "U+104C0", "U+104C1", "U+104C2", "U+104C3", "U+104C4", "U+104C5", "U+104C6",
    "U+104C7", "U+104C8", "U+104C9", "U+104CA", "U+104CB", "U+104CC", "U+104CD", "U+104CE", "U+104CF", "U+104D0", "U+104D1", "U+104D2",
    "U+104D3", "U+10570", "U+10571", "U+10572", "U+10573", "U+10574", "U+10575", "U+10576", "U+10577", "U+10578", "U+10579", "U+1057A",
    "U+1057C", "U+1057D", "U+1057E", "U+1057F", "U+10580", "U+10581", "U+10582", "U+10583", "U+10584", "U+10585", "U+10586", "U+10587",
    "U+10588", "U+10589", "U+1058A", "U+1058C", "U+1058D", "U+1058E", "U+1058F", "U+10590", "U+10591", "U+10592", "U+10594", "U+10595",
    "U+10C80", "U+10C81", "U+10C82", "U+10C83", "U+10C84", "U+10C85", "U+10C86", "U+10C87", "U+10C88", "U+10C89", "U+10C8A", "U+10C8B",
    "U+10C8C", "U+10C8D", "U+10C8E", "U+10C8F", "U+10C90", "U+10C91", "U+10C92", "U+10C93", "U+10C94", "U+10C95", "U+10C96", "U+10C97",
    "U+10C98", "U+10C99", "U+10C9A", "U+10C9B", "U+10C9C", "U+10C9D", "U+10C9E", "U+10C9F", "U+10CA0", "U+10CA1", "U+10CA2", "U+10CA3",
    "U+10CA4", "U+10CA5", "U+10CA6", "U+10CA7", "U+10CA8", "U+10CA9", "U+10CAA", "U+10CAB", "U+10CAC", "U+10CAD", "U+10CAE", "U+10CAF",
    "U+10CB0", "U+10CB1", "U+10CB2", "U+118A0", "U+118A1", "U+118A2", "U+118A3", "U+118A4", "U+118A5", "U+118A6", "U+118A7", "U+118A8",
    "U+118A9", "U+118AA", "U+118AB", "U+118AC", "U+118AD", "U+118AE", "U+118AF", "U+118B0", "U+118B1", "U+118B2", "U+118B3", "U+118B4",
    "U+118B5", "U+118B6", "U+118B7", "U+118B8", "U+118B9", "U+118BA", "U+118BB", "U+118BC", "U+118BD", "U+118BE", "U+118BF", "U+16E40",
    "U+16E41", "U+16E42", "U+16E43", "U+16E44", "U+16E45", "U+16E46", "U+16E47", "U+16E48", "U+16E49", "U+16E4A", "U+16E4B", "U+16E4C",
    "U+16E4D", "U+16E4E", "U+16E4F", "U+16E50", "U+16E51", "U+16E52", "U+16E53", "U+16E54", "U+16E55", "U+16E56", "U+16E57", "U+16E58",
    "U+16E59", "U+16E5A", "U+16E5B", "U+16E5C", "U+16E5D", "U+16E5E", "U+16E5F", "U+1D400", "U+1D401", "U+1D402", "U+1D403", "U+1D404",
    "U+1D405", "U+1D406", "U+1D407", "U+1D408", "U+1D409", "U+1D40A", "U+1D40B", "U+1D40C", "U+1D40D", "U+1D40E", "U+1D40F", "U+1D410",
    "U+1D411", "U+1D412", "U+1D413", "U+1D414", "U+1D415", "U+1D416", "U+1D417", "U+1D418", "U+1D419", "U+1D434", "U+1D435", "U+1D436",
    "U+1D437", "U+1D438", "U+1D439", "U+1D43A", "U+1D43B", "U+1D43C", "U+1D43D", "U+1D43E", "U+1D43F", "U+1D440", "U+1D441", "U+1D442",
    "U+1D443", "U+1D444", "U+1D445", "U+1D446", "U+1D447", "U+1D448", "U+1D449", "U+1D44A", "U+1D44B", "U+1D44C", "U+1D44D", "U+1D468",
    "U+1D469", "U+1D46A", "U+1D46B", "U+1D46C", "U+1D46D", "U+1D46E", "U+1D46F", "U+1D470", "U+1D471", "U+1D472", "U+1D473", "U+1D474",
    "U+1D475", "U+1D476", "U+1D477", "U+1D478", "U+1D479", "U+1D47A", "U+1D47B", "U+1D47C", "U+1D47D", "U+1D47E", "U+1D47F", "U+1D480",
    "U+1D481", "U+1D49C", "U+1D49E", "U+1D49F", "U+1D4A2", "U+1D4A5", "U+1D4A6", "U+1D4A9", "U+1D4AA", "U+1D4AB", "U+1D4AC", "U+1D4AE",
    "U+1D4AF", "U+1D4B0", "U+1D4B1", "U+1D4B2", "U+1D4B3", "U+1D4B4", "U+1D4B5", "U+1D4D0", "U+1D4D1", "U+1D4D2", "U+1D4D3", "U+1D4D4",
    "U+1D4D5", "U+1D4D6", "U+1D4D7", "U+1D4D8", "U+1D4D9", "U+1D4DA", "U+1D4DB", "U+1D4DC", "U+1D4DD", "U+1D4DE", "U+1D4DF", "U+1D4E0",
    "U+1D4E1", "U+1D4E2", "U+1D4E3", "U+1D4E4", "U+1D4E5", "U+1D4E6", "U+1D4E7", "U+1D4E8", "U+1D4E9", "U+1D504", "U+1D505", "U+1D507",
    "U+1D508", "U+1D509", "U+1D50A", "U+1D50D", "U+1D50E", "U+1D50F", "U+1D510", "U+1D511", "U+1D512", "U+1D513", "U+1D514", "U+1D516",
    "U+1D517", "U+1D518", "U+1D519", "U+1D51A", "U+1D51B", "U+1D51C", "U+1D538", "U+1D539", "U+1D53B", "U+1D53C", "U+1D53D", "U+1D53E",
    "U+1D540", "U+1D541", "U+1D542", "U+1D543", "U+1D544", "U+1D546", "U+1D54A", "U+1D54B", "U+1D54C", "U+1D54D", "U+1D54E", "U+1D54F",
    "U+1D550", "U+1D56C", "U+1D56D", "U+1D56E", "U+1D56F", "U+1D570", "U+1D571", "U+1D572", "U+1D573", "U+1D574", "U+1D575", "U+1D576",
    "U+1D577", "U+1D578", "U+1D579", "U+1D57A", "U+1D57B", "U+1D57C", "U+1D57D", "U+1D57E", "U+1D57F", "U+1D580", "U+1D581", "U+1D582",
    "U+1D583", "U+1D584", "U+1D585", "U+1D5A0", "U+1D5A1", "U+1D5A2", "U+1D5A3", "U+1D5A4", "U+1D5A5", "U+1D5A6", "U+1D5A7", "U+1D5A8",
    "U+1D5A9", "U+1D5AA", "U+1D5AB", "U+1D5AC", "U+1D5AD", "U+1D5AE", "U+1D5AF", "U+1D5B0", "U+1D5B1", "U+1D5B2", "U+1D5B3", "U+1D5B4",
    "U+1D5B5", "U+1D5B6", "U+1D5B7", "U+1D5B8", "U+1D5B9", "U+1D5D4", "U+1D5D5", "U+1D5D6", "U+1D5D7", "U+1D5D8", "U+1D5D9", "U+1D5DA",
    "U+1D5DB", "U+1D5DC", "U+1D5DD", "U+1D5DE", "U+1D5DF", "U+1D5E0", "U+1D5E1", "U+1D5E2", "U+1D5E3", "U+1D5E4", "U+1D5E5", "U+1D5E6",
    "U+1D5E7", "U+1D5E8", "U+1D5E9", "U+1D5EA", "U+1D5EB", "U+1D5EC", "U+1D5ED", "U+1D608", "U+1D609", "U+1D60A", "U+1D60B", "U+1D60C",
    "U+1D60D", "U+1D60E", "U+1D60F", "U+1D610", "U+1D611", "U+1D612", "U+1D613", "U+1D614", "U+1D615", "U+1D616", "U+1D617", "U+1D618",
    "U+1D619", "U+1D61A", "U+1D61B", "U+1D61C", "U+1D61D", "U+1D61E", "U+1D61F", "U+1D620", "U+1D621", "U+1D63C", "U+1D63D", "U+1D63E",
    "U+1D63F", "U+1D640", "U+1D641", "U+1D642", "U+1D643", "U+1D644", "U+1D645", "U+1D646", "U+1D647", "U+1D648", "U+1D649", "U+1D64A",
    "U+1D64B", "U+1D64C", "U+1D64D", "U+1D64E", "U+1D64F", "U+1D650", "U+1D651", "U+1D652", "U+1D653", "U+1D654", "U+1D655", "U+1D670",
    "U+1D671", "U+1D672", "U+1D673", "U+1D674", "U+1D675", "U+1D676", "U+1D677", "U+1D678", "U+1D679", "U+1D67A", "U+1D67B", "U+1D67C",
    "U+1D67D", "U+1D67E", "U+1D67F", "U+1D680", "U+1D681", "U+1D682", "U+1D683", "U+1D684", "U+1D685", "U+1D686", "U+1D687", "U+1D688",
    "U+1D689", "U+1D6A8", "U+1D6A9", "U+1D6AA", "U+1D6AB", "U+1D6AC", "U+1D6AD", "U+1D6AE", "U+1D6AF", "U+1D6B0", "U+1D6B1", "U+1D6B2",
    "U+1D6B3", "U+1D6B4", "U+1D6B5", "U+1D6B6", "U+1D6B7", "U+1D6B8", "U+1D6B9", "U+1D6BA", "U+1D6BB", "U+1D6BC", "U+1D6BD", "U+1D6BE",
    "U+1D6BF", "U+1D6C0", "U+1D6E2", "U+1D6E3", "U+1D6E4", "U+1D6E5", "U+1D6E6", "U+1D6E7", "U+1D6E8", "U+1D6E9", "U+1D6EA", "U+1D6EB",
    "U+1D6EC", "U+1D6ED", "U+1D6EE", "U+1D6EF", "U+1D6F0", "U+1D6F1", "U+1D6F2", "U+1D6F3", "U+1D6F4", "U+1D6F5", "U+1D6F6", "U+1D6F7",
    "U+1D6F8", "U+1D6F9", "U+1D6FA", "U+1D71C", "U+1D71D", "U+1D71E", "U+1D71F", "U+1D720", "U+1D721", "U+1D722", "U+1D723", "U+1D724",
    "U+1D725", "U+1D726", "U+1D727", "U+1D728", "U+1D729", "U+1D72A", "U+1D72B", "U+1D72C", "U+1D72D", "U+1D72E", "U+1D72F", "U+1D730",
    "U+1D731", "U+1D732", "U+1D733", "U+1D734", "U+1D756", "U+1D757", "U+1D758", "U+1D759", "U+1D75A", "U+1D75B", "U+1D75C", "U+1D75D",
    "U+1D75E", "U+1D75F", "U+1D760", "U+1D761", "U+1D762", "U+1D763", "U+1D764", "U+1D765", "U+1D766", "U+1D767", "U+1D768", "U+1D769",
    "U+1D76A", "U+1D76B", "U+1D76C", "U+1D76D", "U+1D76E", "U+1D790", "U+1D791", "U+1D792", "U+1D793", "U+1D794", "U+1D795", "U+1D796",
    "U+1D797", "U+1D798", "U+1D799", "U+1D79A", "U+1D79B", "U+1D79C", "U+1D79D", "U+1D79E", "U+1D79F", "U+1D7A0", "U+1D7A1", "U+1D7A2",
    "U+1D7A3", "U+1D7A4", "U+1D7A5", "U+1D7A6", "U+1D7A7", "U+1D7A8", "U+1D7CA", "U+1E900", "U+1E901", "U+1E902", "U+1E903", "U+1E904",
    "U+1E905", "U+1E906", "U+1E907", "U+1E908", "U+1E909", "U+1E90A", "U+1E90B", "U+1E90C", "U+1E90D", "U+1E90E", "U+1E90F", "U+1E910",
    "U+1E911", "U+1E912", "U+1E913", "U+1E914", "U+1E915", "U+1E916", "U+1E917", "U+1E918", "U+1E919", "U+1E91A", "U+1E91B", "U+1E91C",
    "U+1E91D", "U+1E91E", "U+1E91F", "U+1E920", "U+1E921"
  >>

LowerOther ==
  <<
    "à", "á", "â", "ã", "ä", "å", "æ", "ç", "è", "é", "ê", "ë",
    "ì", "í", "î", "ï", "ð", "ñ", "ò", "ó", "ô", "õ", "ö", "ø",
    "ù", "ú", "û", "ü", "ý", "þ", "U+0101", "U+0103", "U+0105", "U+0107", "U+0109", "U+010B",
    "U+010D", "U+010F", "U+0111", "U+0113", "U+0115", "U+0117", "U+0119", "U+011B", "U+011D", "U+011F", "U+0121", "U+0123",
    "U+0125", "U+0127", "U+0129", "U+012B", "U+012D", "U+012F", "i", "U+0133", "U+0135", "U+0137", "U+013A", "U+013C",
    "U+013E", "U+0140", "U+0142", "U+0144", "U+0146", "U+0148", "U+014B", "U+014D", "U+014F", "U+0151", "U+0153", "U+0155",
    "U+0157", "U+0159", "U+015B", "U+015D", "U+015F", "U+0161", "U+0163", "U+0165", "U+0167", "U+0169", "U+016B", "U+016D",
    "U+016F", "U+0171", "U+0173", "U+0175", "U+0177", "ÿ", "U+017A", "U+017C", "U+017E", "U+0253", "ƃ", "ƅ",
    "U+0254", "ƈ", "U+0256", "U+0257", "ƌ", "ǝ", "U+0259", "U+025B", "ƒ", "U+0260", "U+0263", "U+0269",
    "U+0268", "ƙ", "U+026F", "U+0272", "U+0275", "ơ", "ƣ", "ƥ", "ʀ", "ƨ", "ʃ", "ƭ",
    "ʈ", "ư", "ʊ", "ʋ", "ƴ", "ƶ", "ʒ", "ƹ", "ƽ", "ǆ", "ǉ", "ǌ",
    "ǎ", "ǐ", "ǒ", "ǔ", "ǖ", "ǘ", "ǚ", "ǜ", "ǟ", "ǡ", "ǣ", "ǥ",
    "ǧ", "ǩ", "ǫ", "ǭ", "ǯ", "ǳ", "ǵ", "ƕ", "ƿ", "ǹ", "ǻ", "ǽ",
    "ǿ", "U+0201", "U+0203", "U+0205", "U+0207", "U+0209", "U+020B", "U+020D", "U+020F", "U+0211", "U+0213", "U+0215",
    "U+0217", "U+0219", "U+021B", "U+021D", "U+021F", "ƞ", "U+0223", "U+0225", "U+0227", "U+0229", "U+022B", "U+022D",
    "U+022F", "U+0231", "U+0233", "U+2C65", "U+023C", "ƚ", "U+2C66", "U+0242", "ƀ", "ʉ", "ʌ", "U+0247",
    "U+0249", "U+024B", "U+024D", "U+024F", "U+0371", "U+0373", "U+0377", "ϳ", "ά", "έ", "ή", "ί",
    "ό", "ύ", "ώ", "α", "β", "γ", "δ", "ε", "ζ", "η", "θ", "ι",
    "κ", "λ", "μ", "ν", "ξ", "ο", "π", "ρ", "σ", "τ", "υ", "φ",
    "χ", "ψ", "ω", "ϊ", "ϋ", "ϗ", "ϒ", "ϓ", "ϔ", "ϙ", "ϛ", "ϝ",
    "ϟ", "ϡ", "ϣ", "ϥ", "ϧ", "ϩ", "ϫ", "ϭ", "ϯ", "θ", "ϸ", "ϲ",
    "ϻ", "U+037B", "U+037C", "U+037D", "U+0450", "U+0451", "U+0452", "U+0453", "U+0454", "U+0455", "U+0456", "U+0457",
    "U+0458", "U+0459", "U+045A", "U+045B", "U+045C", "U+045D", "U+045E", "U+045F", "U+0430", "U+0431", "U+0432", "U+0433",
    "U+0434", "U+0435", "U+0436", "U+0437", "U+0438", "U+0439", "U+043A", "U+043B", "U+043C", "U+043D", "U+043E", "U+043F",
    "U+0440", "U+0441", "U+0442", "U+0443", "U+0444", "U+0445", "U+0446", "U+0447", "U+0448", "U+0449", "U+044A", "U+044B",
    "U+044C", "U+044D", "U+044E", "U+044F", "U+0461", "U+0463", "U+0465", "U+0467", "U+0469", "U+046B", "U+046D", "U+046F",
    "U+0471", "U+0473", "U+0475", "U+0477", "U+0479", "U+047B", "U+047D", "U+047F", "ҁ", "ҋ", "ҍ", "ҏ",
    "ґ", "ғ", "ҕ", "җ", "ҙ", "қ", "ҝ", "ҟ", "ҡ", "ң", "ҥ", "ҧ",
    "ҩ", "ҫ", "ҭ", "ү", "ұ", "ҳ", "ҵ", "ҷ", "ҹ", "һ", "ҽ", "ҿ",
    "ӏ", "ӂ", "ӄ", "ӆ", "ӈ", "ӊ", "ӌ", "ӎ", "ӑ", "ӓ", "ӕ", "ӗ",
    "ә", "ӛ", "ӝ", "ӟ", "ӡ", "ӣ", "ӥ", "ӧ", "ө", "ӫ", "ӭ", "ӯ",
    "ӱ", "ӳ", "ӵ", "ӷ", "ӹ", "ӻ", "ӽ", "ӿ", "U+0501", "U+0503", "U+0505", "U+0507",
    "U+0509", "U+050B", "U+050D", "U+050F", "U+0511", "U+0513", "U+0515", "U+0517", "U+0519", "U+051B", "U+051D", "U+051F",
    "U+0521", "U+0523", "U+0525", "U+0527", "U+0529", "U+052B", "U+052D", "U+052F", "U+0561", "U+0562", "U+0563", "U+0564",
    "U+0565", "U+0566", "U+0567", "U+0568", "U+0569", "U+056A", "U+056B", "U+056C", "U+056D", "U+056E", "U+056F", "U+0570",
    "U+0571", "U+0572", "U+0573", "U+0574", "U+0575", "U+0576", "U+0577", "U+0578", "U+0579", "U+057A", "U+057B", "U+057C",
    "U+057D", "U+057E", "U+057F", "ր", "ց", "ւ", "փ", "ք", "օ", "ֆ", "U+2D00", "U+2D01",
    "U+2D02", "U+2D03", "U+2D04", "U+2D05", "U+2D06", "U+2D07", "U+2D08", "U+2D09", "U+2D0A", "U+2D0B", "U+2D0C", "U+2D0D",
    "U+2D0E", "U+2D0F", "U+2D10", "U+2D11", "U+2D12", "U+2D13", "U+2D14", "U+2D15", "U+2D16", "U+2D17", "U+2D18", "U+2D19",
    "U+2D1A", "U+2D1B", "U+2D1C", "U+2D1D", "U+2D1E", "U+2D1F", "U+2D20", "U+2D21", "U+2D22", "U+2D23", "U+2D24", "U+2D25",
    "U+2D27", "U+2D2D", "U+AB70", "U+AB71", "U+AB72", "U+AB73", "U+AB74", "U+AB75", "U+AB76", "U+AB77", "U+AB78", "U+AB79",
    "U+AB7A", "U+AB7B", "U+AB7C", "U+AB7D", "U+AB7E", "U+AB7F", "ꮀ", "ꮁ", "ꮂ", "ꮃ", "ꮄ", "ꮅ",
    "ꮆ", "ꮇ", "ꮈ", "ꮉ", "ꮊ", "ꮋ", "ꮌ", "ꮍ", "ꮎ", "ꮏ", "ꮐ", "ꮑ",
    "ꮒ", "ꮓ", "ꮔ", "ꮕ", "ꮖ", "ꮗ", "ꮘ", "ꮙ", "ꮚ", "ꮛ", "ꮜ", "ꮝ",
    "ꮞ", "ꮟ", "ꮠ", "ꮡ", "ꮢ", "ꮣ", "ꮤ", "ꮥ", "ꮦ", "ꮧ", "ꮨ", "ꮩ",
    "ꮪ", "ꮫ", "ꮬ", "ꮭ", "ꮮ", "ꮯ", "ꮰ", "ꮱ", "ꮲ", "ꮳ", "ꮴ", "ꮵ",
    "ꮶ", "ꮷ", "ꮸ", "ꮹ", "ꮺ", "ꮻ", "ꮼ", "ꮽ", "ꮾ", "ꮿ", "ᏸ", "ᏹ",
    "ᏺ", "ᏻ", "ᏼ", "ᏽ", "ა", "ბ", "გ", "დ", "ე", "ვ", "ზ", "თ",
    "ი", "კ", "ლ", "მ", "ნ", "ო", "პ", "ჟ", "რ", "ს", "ტ", "უ",
    "ფ", "ქ", "ღ", "ყ", "შ", "ჩ", "ც", "ძ", "წ", "ჭ", "ხ", "ჯ",
    "ჰ", "ჱ", "ჲ", "ჳ", "ჴ", "ჵ", "ჶ", "ჷ", "ჸ", "ჹ", "ჺ", "ჽ",
    "ჾ", "ჿ", "U+1E01", "U+1E03", "U+1E05", "U+1E07", "U+1E09", "U+1E0B", "U+1E0D", "U+1E0F", "U+1E11", "U+1E13",
    "U+1E15", "U+1E17", "U+1E19", "U+1E1B", "U+1E1D", "U+1E1F", "U+1E21", "U+1E23", "U+1E25", "U+1E27", "U+1E29", "U+1E2B",
    "U+1E2D", "U+1E2F", "U+1E31", "U+1E33", "U+1E35", "U+1E37", "U+1E39", "U+1E3B", "U+1E3D", "U+1E3F", "U+1E41", "U+1E43",
    "U+1E45", "U+1E47", "U+1E49", "U+1E4B", "U+1E4D", "U+1E4F", "U+1E51", "U+1E53", "U+1E55", "U+1E57", "U+1E59", "U+1E5B",
    "U+1E5D", "U+1E5F", "U+1E61", "U+1E63", "U+1E65", "U+1E67", "U+1E69", "U+1E6B", "U+1E6D", "U+1E6F", "U+1E71", "U+1E73",
    "U+1E75", "U+1E77", "U+1E79", "U+1E7B", "U+1E7D", "U+1E7F", "ẁ", "ẃ", "ẅ", "ẇ", "ẉ", "ẋ",
    "ẍ", "ẏ", "ẑ", "ẓ", "ẕ", "ß", "ạ", "ả", "ấ", "ầ", "ẩ", "ẫ",
    "ậ", "ắ", "ằ", "ẳ", "ẵ", "ặ", "ẹ", "ẻ", "ẽ", "ế", "ề", "ể",
    "ễ", "ệ", "ỉ", "ị", "ọ", "ỏ", "ố", "ồ", "ổ", "ỗ", "ộ", "ớ",
    "ờ", "ở", "ỡ", "ợ", "ụ", "ủ", "ứ", "ừ", "ử", "ữ", "ự", "ỳ",
    "ỵ", "ỷ", "ỹ", "ỻ", "ỽ", "ỿ", "U+1F00", "U+1F01", "U+1F02", "U+1F03", "U+1F04", "U+1F05",
    "U+1F06", "U+1F07", "U+1F10", "U+1F11", "U+1F12", "U+1F13", "U+1F14", "U+1F15", "U+1F20", "U+1F21", "U+1F22", "U+1F23",
    "U+1F24", "U+1F25", "U+1F26", "U+1F27", "U+1F30", "U+1F31", "U+1F32", "U+1F33", "U+1F34", "U+1F35", "U+1F36", "U+1F37",
    "U+1F40", "U+1F41", "U+1F42", "U+1F43", "U+1F44", "U+1F45", "U+1F51", "U+1F53", "U+1F55", "U+1F57", "U+1F60", "U+1F61",
    "U+1F62", "U+1F63", "U+1F64", "U+1F65", "U+1F66", "U+1F67", "ᾰ", "ᾱ", "U+1F70", "U+1F71", "U+1F72", "U+1F73",
    "U+1F74", "U+1F75", "ῐ", "ῑ", "U+1F76", "U+1F77", "ῠ", "ῡ", "U+1F7A", "U+1F7B", "ῥ", "U+1F78",
    "U+1F79", "U+1F7C", "U+1F7D", "U+2102", "U+2107", "U+210B", "U+210C", "U+210D", "U+2110", "U+2111", "U+2112", "U+2115",
    "U+2119", "U+211A", "U+211B", "U+211C", "U+211D", "U+2124", "ω", "U+2128", "k", "å", "U+212C", "U+212D",
    "U+2130", "U+2131", "U+214E", "U+2133", "U+213E", "U+213F", "U+2145", "ↄ", "U+2C30", "U+2C31", "U+2C32", "U+2C33",
    "U+2C34", "U+2C35", "U+2C36", "U+2C37", "U+2C38", "U+2C39", "U+2C3A", "U+2C3B", "U+2C3C", "U+2C3D", "U+2C3E", "U+2C3F",
    "U+2C40", "U+2C41", "U+2C42", "U+2C43", "U+2C44", "U+2C45", "U+2C46", "U+2C47", "U+2C48", "U+2C49", "U+2C4A", "U+2C4B",
    "U+2C4C", "U+2C4D", "U+2C4E", "U+2C4F", "U+2C50", "U+2C51", "U+2C52", "U+2C53", "U+2C54", "U+2C55", "U+2C56", "U+2C57",
    "U+2C58", "U+2C59", "U+2C5A", "U+2C5B", "U+2C5C", "U+2C5D", "U+2C5E", "U+2C5F", "U+2C61", "U+026B", "U+1D7D", "U+027D",
    "U+2C68", "U+2C6A", "U+2C6C", "U+0251", "U+0271", "U+0250", "U+0252", "U+2C73", "U+2C76", "U+023F", "U+0240", "ⲁ",
    "ⲃ", "ⲅ", "ⲇ", "ⲉ", "ⲋ", "ⲍ", "ⲏ", "ⲑ", "ⲓ", "ⲕ", "ⲗ", "ⲙ",
    "ⲛ", "ⲝ", "ⲟ", "ⲡ", "ⲣ", "ⲥ", "ⲧ", "ⲩ", "ⲫ", "ⲭ", "ⲯ", "ⲱ",
    "ⲳ", "ⲵ", "ⲷ", "ⲹ", "ⲻ", "ⲽ", "ⲿ", "ⳁ", "ⳃ", "ⳅ", "ⳇ", "ⳉ",
    "ⳋ", "ⳍ", "ⳏ", "ⳑ", "ⳓ", "ⳕ", "ⳗ", "ⳙ", "ⳛ", "ⳝ", "ⳟ", "ⳡ",
    "ⳣ", "ⳬ", "ⳮ", "ⳳ", "U+A641", "U+A643", "U+A645", "U+A647", "U+A649", "U+A64B", "U+A64D", "U+A64F",
    "U+A651", "U+A653", "U+A655", "U+A657", "U+A659", "U+A65B", "U+A65D", "U+A65F", "U+A661", "U+A663", "U+A665", "U+A667",
    "U+A669", "U+A66B", "U+A66D", "ꚁ", "ꚃ", "ꚅ", "ꚇ", "ꚉ", "ꚋ", "ꚍ", "ꚏ", "ꚑ",
    "ꚓ", "ꚕ", "ꚗ", "ꚙ", "ꚛ", "U+A723", "U+A725", "U+A727", "U+A729", "U+A72B", "U+A72D", "U+A72F",
    "U+A733", "U+A735", "U+A737", "U+A739", "U+A73B", "U+A73D", "U+A73F", "U+A741", "U+A743", "U+A745", "U+A747", "U+A749",
    "U+A74B", "U+A74D", "U+A74F", "U+A751", "U+A753", "U+A755", "U+A757", "U+A759", "U+A75B", "U+A75D", "U+A75F", "U+A761",
    "U+A763", "U+A765", "U+A767", "U+A769", "U+A76B", "U+A76D", "U+A76F", "U+A77A", "U+A77C", "U+1D79", "U+A77F", "ꞁ",
    "ꞃ", "ꞅ", "ꞇ", "ꞌ", "U+0265", "ꞑ", "ꞓ", "ꞗ", "ꞙ", "ꞛ", "ꞝ", "ꞟ",
    "ꞡ", "ꞣ", "ꞥ", "ꞧ", "ꞩ", "U+0266", "U+025C", "U+0261", "U+026C", "U+026A", "ʞ", "ʇ",
    "ʝ", "U+AB53", "ꞵ", "ꞷ", "ꞹ", "ꞻ", "ꞽ", "ꞿ", "ꟁ", "ꟃ", "ꞔ", "ʂ",
    "ᶎ", "ꟈ", "ꟊ", "ꟑ", "ꟗ", "ꟙ", "ꟶ", "U+FF41", "U+FF42", "U+FF43", "U+FF44", "U+FF45",
    "U+FF46", "U+FF47", "U+FF48", "U+FF49", "U+FF4A", "U+FF4B", "U+FF4C", "U+FF4D", "U+FF4E", "U+FF4F", "U+FF50", "U+FF51",
    "U+FF52", "U+FF53", "U+FF54", "U+FF55", "U+FF56", "U+FF57", "U+FF58", "U+FF59", "U+FF5A", "U+10428", "U+10429", "U+1042A",
    "U+1042B", "U+1042C", "U+1042D", "U+1042E", "U+1042F", "U+10430", "U+10431", "U+10432", "U+10433", "U+10434", "U+10435", "U+10436",
    "U+10437", "U+10438", "U+10439", "U+1043A", "U+1043B", "U+1043C", "U+1043D", "U+1043E", "U+1043F", "U+10440", "U+10441", "U+10442",
    "U+10443", "U+10444", "U+10445", "U+10446", "U+10447", "U+10448", "U+10449", "U+1044A", "U+1044B", "U+1044C", "U+1044D", "U+1044E",
    "U+1044F", "U+104D8", "U+104D9", "U+104DA", "U+104DB", "U+104DC", "U+104DD", "U+104DE", "U+104DF", "U+104E0", "U+104E1", "U+104E2",
    "U+104E3", "U+104E4", "U+104E5", "U+104E6", "U+104E7", "U+104E8", "U+104E9", "U+104EA", "U+104EB", "U+104EC", "U+104ED", "U+104EE",
    "U+104EF", "U+104F0", "U+104F1", "U+104F2", "U+104F3", "U+104F4", "U+104F5", "U+104F6", "U+104F7", "U+104F8", "U+104F9", "U+104FA",
    "U+104FB", "U+10597", "U+10598", "U+10599", "U+1059A", "U+1059B", "U+1059C", "U+1059D", "U+1059E", "U+1059F", "U+105A0", "U+105A1",
    "U+105A3", "U+105A4", "U+105A5", "U+105A6", "U+105A7", "U+105A8", "U+105A9", "U+105AA", "U+105AB", "U+105AC", "U+105AD", "U+105AE",
    "U+105AF", "U+105B0", "U+105B1", "U+105B3", "U+105B4", "U+105B5", "U+105B6", "U+105B7", "U+105B8", "U+105B9", "U+105BB", "U+105BC",
    "U+10CC0", "U+10CC1", "U+10CC2", "U+10CC3", "U+10CC4", "U+10CC5", "U+10CC6", "U+10CC7", "U+10CC8", "U+10CC9", "U+10CCA", "U+10CCB",
    "U+10CCC", "U+10CCD", "U+10CCE", "U+10CCF", "U+10CD0", "U+10CD1", "U+10CD2", "U+10CD3", "U+10CD4", "U+10CD5", "U+10CD6", "U+10CD7",
    "U+10CD8", "U+10CD9", "U+10CDA", "U+10CDB", "U+10CDC", "U+10CDD", "U+10CDE", "U+10CDF", "U+10CE0", "U+10CE1", "U+10CE2", "U+10CE3",
    "U+10CE4", "U+10CE5", "U+10CE6", "U+10CE7", "U+10CE8", "U+10CE9", "U+10CEA", "U+10CEB", "U+10CEC", "U+10CED", "U+10CEE", "U+10CEF",
    "U+10CF0", "U+10CF1", "U+10CF2", "U+118C0", "U+118C1", "U+118C2", "U+118C3", "U+118C4", "U+118C5", "U+118C6", "U+118C7", "U+118C8",
    "U+118C9", "U+118CA", "U+118CB", "U+118CC", "U+118CD", "U+118CE", "U+118CF", "U+118D0", "U+118D1", "U+118D2", "U+118D3", "U+118D4",
    "U+118D5", "U+118D6", "U+118D7", "U+118D8", "U+118D9", "U+118DA", "U+118DB", "U+118DC", "U+118DD", "U+118DE", "U+118DF", "U+16E60",
    "U+16E61", "U+16E62", "U+16E63", "U+16E64", "U+16E65", "U+16E66", "U+16E67", "U+16E68", "U+16E69", "U+16E6A", "U+16E6B", "U+16E6C",
    "U+16E6D", "U+16E6E", "U+16E6F", "U+16E70", "U+16E71", "U+16E72", "U+16E73", "U+16E74", "U+16E75", "U+16E76", "U+16E77", "U+16E78",
    "U+16E79", "U+16E7A", "U+16E7B", "U+16E7C", "U+16E7D", "U+16E7E", "U+16E7F", "U+1D400", "U+1D401", "U+1D402", "U+1D403", "U+1D404",
    "U+1D405", "U+1D406", "U+1D407", "U+1D408", "U+1D409", "U+1D40A", "U+1D40B", "U+1D40C", "U+1D40D", "U+1D40E", "U+1D40F", "U+1D410",
    "U+1D411", "U+1D412", "U+1D413", "U+1D414", "U+1D415", "U+1D416", "U+1D417", "U+1D418", "U+1D419", "U+1D434", "U+1D435", "U+1D436",
    "U+1D437", "U+1D438", "U+1D439", "U+1D43A", "U+1D43B", "U+1D43C", "U+1D43D", "U+1D43E", "U+1D43F", "U+1D440", "U+1D441", "U+1D442",
    "U+1D443", "U+1D444", "U+1D445", "U+1D446", "U+1D447", "U+1D448", "U+1D449", "U+1D44A", "U+1D44B", "U+1D44C", "U+1D44D", "U+1D468",
    "U+1D469", "U+1D46A", "U+1D46B", "U+1D46C", "U+1D46D", "U+1D46E", "U+1D46F", "U+1D470", "U+1D471", "U+1D472", "U+1D473", "U+1D474",
    "U+1D475", "U+1D476", "U+1D477", "U+1D478", "U+1D479", "U+1D47A", "U+1D47B", "U+1D47C", "U+1D47D", "U+1D47E", "U+1D47F", "U+1D480",
    "U+1D481", "U+1D49C", "U+1D49E", "U+1D49F", "U+1D4A2", "U+1D4A5", "U+1D4A6", "U+1D4A9", "U+1D4AA", "U+1D4AB", "U+1D4AC", "U+1D4AE",
    "U+1D4AF", "U+1D4B0", "U+1D4B1", "U+1D4B2", "U+1D4B3", "U+1D4B4", "U+1D4B5", "U+1D4D0", "U+1D4D1", "U+1D4D2", "U+1D4D3", "U+1D4D4",
    "U+1D4D5", "U+1D4D6", "U+1D4D7", "U+1D4D8", "U+1D4D9", "U+1D4DA", "U+1D4DB", "U+1D4DC", "U+1D4DD", "U+1D4DE", "U+1D4DF", "U+1D4E0",
    "U+1D4E1", "U+1D4E2", "U+1D4E3", "U+1D4E4", "U+1D4E5", "U+1D4E6", "U+1D4E7", "U+1D4E8", "U+1D4E9", "U+1D504", "U+1D505", "U+1D507",
    "U+1D508", "U+1D509", "U+1D50A", "U+1D50D", "U+1D50E", "U+1D50F", "U+1D510", "U+1D511", "U+1D512", "U+1D513", "U+1D514", "U+1D516",
    "U+1D517", "U+1D518", "U+1D519", "U+1D51A", "U+1D51B", "U+1D51C", "U+1D538", "U+1D539", "U+1D53B", "U+1D53C", "U+1D53D", "U+1D53E",
    "U+1D540", "U+1D541", "U+1D542", "U+1D543", "U+1D544", "U+1D546", "U+1D54A", "U+1D54B", "U+1D54C", "U+1D54D", "U+1D54E", "U+1D54F",
    "U+1D550", "U+1D56C", "U+1D56D", "U+1D56E", "U+1D56F", "U+1D570", "U+1D571", "U+1D572", "U+1D573", "U+1D574", "U+1D575", "U+1D576",
    "U+1D577", "U+1D578", "U+1D579", "U+1D57A", "U+1D57B", "U+1D57C", "U+1D57D", "U+1D57E", "U+1D57F", "U+1D580", "U+1D581", "U+1D582",
    "U+1D583", "U+1D584", "U+1D585", "U+1D5A0", "U+1D5A1", "U+1D5A2", "U+1D5A3", "U+1D5A4", "U+1D5A5", "U+1D5A6", "U+1D5A7", "U+1D5A8",
    "U+1D5A9", "U+1D5AA", "U+1D5AB", "U+1D5AC", "U+1D5AD", "U+1D5AE", "U+1D5AF", "U+1D5B0", "U+1D5B1", "U+1D5B2", "U+1D5B3", "U+1D5B4",
    "U+1D5B5", "U+1D5B6", "U+1D5B7", "U+1D5B8", "U+1D5B9", "U+1D5D4", "U+1D5D5", "U+1D5D6", "U+1D5D7", "U+1D5D8", "U+1D5D9", "U+1D5DA",
    "U+1D5DB", "U+1D5DC", "U+1D5DD", "U+1D5DE", "U+1D5DF", "U+1D5E0", "U+1D5E1", "U+1D5E2", "U+1D5E3", "U+1D5E4", "U+1D5E5", "U+1D5E6",
    "U+1D5E7", "U+1D5E8", "U+1D5E9", "U+1D5EA", "U+1D5EB", "U+1D5EC", "U+1D5ED", "U+1D608", "U+1D609", "U+1D60A", "U+1D60B", "U+1D60C",
    "U+1D60D", "U+1D60E", "U+1D60F", "U+1D610", "U+1D611", "U+1D612", "U+1D613", "U+1D614", "U+1D615", "U+1D616", "U+1D617", "U+1D618",
    "U+1D619", "U+1D61A", "U+1D61B", "U+1D61C", "U+1D61D", "U+1D61E", "U+1D61F", "U+1D620", "U+1D621", "U+1D63C", "U+1D63D", "U+1D63E",
    "U+1D63F", "U+1D640", "U+1D641", "U+1D642", "U+1D643", "U+1D644", "U+1D645", "U+1D646", "U+1D647", "U+1D648", "U+1D649", "U+1D64A",
    "U+1D64B", "U+1D64C", "U+1D64D", "U+1D64E", "U+1D64F", "U+1D650", "U+1D651", "U+1D652", "U+1D653", "U+1D654", "U+1D655", "U+1D670",
    "U+1D671", "U+1D672", "U+1D673", "U+1D674", "U+1D675", "U+1D676", "U+1D677", "U+1D678", "U+1D679", "U+1D67A", "U+1D67B", "U+1D67C",
    "U+1D67D", "U+1D67E", "U+1D67F", "U+1D680", "U+1D681", "U+1D682", "U+1D683", "U+1D684", "U+1D685", "U+1D686", "U+1D687", "U+1D688",
    "U+1D689", "U+1D6A8", "U+1D6A9", "U+1D6AA", "U+1D6AB", "U+1D6AC", "U+1D6AD", "U+1D6AE", "U+1D6AF", "U+1D6B0", "U+1D6B1", "U+1D6B2",
    "U+1D6B3", "U+1D6B4", "U+1D6B5", "U+1D6B6", "U+1D6B7", "U+1D6B8", "U+1D6B9", "U+1D6BA", "U+1D6BB", "U+1D6BC", "U+1D6BD", "U+1D6BE",
    "U+1D6BF", "U+1D6C0", "U+1D6E2", "U+1D6E3", "U+1D6E4", "U+1D6E5", "U+1D6E6", "U+1D6E7", "U+1D6E8", "U+1D6E9", "U+1D6EA", "U+1D6EB",
    "U+1D6EC", "U+1D6ED", "U+1D6EE", "U+1D6EF", "U+1D6F0", "U+1D6F1", "U+1D6F2", "U+1D6F3", "U+1D6F4", "U+1D6F5", "U+1D6F6", "U+1D6F7",
    "U+1D6F8", "U+1D6F9", "U+1D6FA", "U+1D71C", "U+1D71D", "U+1D71E", "U+1D71F", "U+1D720", "U+1D721", "U+1D722", "U+1D723", "U+1D724",
    "U+1D725", "U+1D726", "U+1D727", "U+1D728", "U+1D729", "U+1D72A", "U+1D72B", "U+1D72C", "U+1D72D", "U+1D72E", "U+1D72F", "U+1D730",
    "U+1D731", "U+1D732", "U+1D733", "U+1D734", "U+1D756", "U+1D757", "U+1D758", "U+1D759", "U+1D75A", "U+1D75B", "U+1D75C", "U+1D75D",
    "U+1D75E", "U+1D75F", "U+1D760", "U+1D761", "U+1D762", "U+1D763", "U+1D764", "U+1D765", "U+1D766", "U+1D767", "U+1D768", "U+1D769",
    "U+1D76A", "U+1D76B", "U+1D76C", "U+1D76D", "U+1D76E", "U+1D790", "U+1D791", "U+1D792", "U+1D793", "U+1D794", "U+1D795", "U+1D796",
    "U+1D797", "U+1D798", "U+1D799", "U+1D79A", "U+1D79B", "U+1D79C", "U+1D79D", "U+1D79E", "U+1D79F", "U+1D7A0", "U+1D7A1", "U+1D7A2",
    "U+1D7A3", "U+1D7A4", "U+1D7A5", "U+1D7A6", "U+1D7A7", "U+1D7A8", "U+1D7CA", "U+1E922", "U+1E923", "U+1E924", "U+1E925", "U+1E926",
    "U+1E927", "U+1E928", "U+1E929", "U+1E92A", "U+1E92B", "U+1E92C", "U+1E92D", "U+1E92E", "U+1E92F", "U+1E930", "U+1E931", "U+1E932",
    "U+1E933", "U+1E934", "U+1E935", "U+1E936", "U+1E937", "U+1E938", "U+1E939", "U+1E93A", "U+1E93B", "U+1E93C", "U+1E93D", "U+1E93E",
    "U+1E93F", "U+1E940", "U+1E941", "U+1E942", "U+1E943"
  >>

UpperSet == Range(UpperChars)
UpperOtherSet == Range(UpperOther)

IsDigit(c) == c \in Range(Digits)

\* unicode.IsUpper and unicode.ToLower
IsUpper(c) == c \in UpperSet \/ c \in UpperOtherSet
ToLower(c) ==
    IF c \in UpperSet
    THEN LowerChars[CHOOSE i \in 1..Len(UpperChars) : UpperChars[i] = c]
    ELSE IF c \in UpperOtherSet
    THEN LowerOther[CHOOSE i \in 1..Len(UpperOther) : UpperOther[i] = c]
    ELSE c

\* the lower-casing strconv applies to the bytes it compares: A-Z only
AsciiLower(c) ==
    IF c \in UpperSet
    THEN LowerChars[CHOOSE i \in 1..Len(UpperChars) : UpperChars[i] = c]
    ELSE c
LowerStr(s) == [i \in 1..Len(s) |-> AsciiLower(s[i])]

\* unicode.IsSpace: the characters of the Unicode property White_Space
SpaceChars ==
    {
      "\t", "\n", "", "\f", "\r", " ", "", " ", " ", "U+2000", "U+2001", "U+2002",
      "U+2003", "U+2004", "U+2005", "U+2006", "U+2007", "U+2008", "U+2009", "U+200A", "U+2028", "U+2029", "U+202F", "U+205F",
      "U+3000"
    }
IsSpace(c) == c \in SpaceChars

\* s[from:] of Go, with a 0-based index
Drop(s, n) == SubSeq(s, n + 1, Len(s))
\* s[:n] of Go
Take(s, n) == SubSeq(s, 1, n)

\* strings.HasPrefix
HasPrefix(s, p) == Len(s) >= Len(p) /\ Take(s, Len(p)) = p

\* strings.Index(s, c) for a one-character c: the 0-based index of its first
\* occurrence, -1 if there is none
IndexChar(s, c) ==
    IF \E i \in 1..Len(s) : s[i] = c
    THEN (CHOOSE i \in 1..Len(s) : s[i] = c /\ \A j \in 1..(i - 1) : s[j] # c) - 1
    ELSE -1

\* strings.Fields: the maximal runs of non-space characters, in order
RECURSIVE FieldsFrom(_, _, _)
FieldsFrom(s, i, cur) ==
    IF i > Len(s)
    THEN IF cur = <<>> THEN <<>> ELSE <<cur>>
    ELSE IF IsSpace(s[i])
         THEN IF cur = <<>>
              THEN FieldsFrom(s, i + 1, <<>>)
              ELSE <<cur>> \o FieldsFrom(s, i + 1, <<>>)
         ELSE FieldsFrom(s, i + 1, Append(cur, s[i]))

Fields(s) == FieldsFrom(s, 1, <<>>)

(***************************************************************************)
(* Numerals.  A parsed integer is kept as its canonical decimal numeral    *)
(* (sign and digits without leading zeros), which is exact at any width.   *)
(***************************************************************************)
NonZeroAt(d) == {i \in 1..Len(d) : d[i] # "0"}

StripLeadingZeros(d) ==
    IF NonZeroAt(d) = {} THEN <<>>
    ELSE SubSeq(d, CHOOSE i \in NonZeroAt(d) : \A j \in NonZeroAt(d) : i <= j, Len(d))

StripTrailingZeros(d) ==
    IF NonZeroAt(d) = {} THEN <<>>
    ELSE SubSeq(d, 1, CHOOSE i \in NonZeroAt(d) : \A j \in NonZeroAt(d) : i >= j)

DigitVal(c) == (CHOOSE i \in 1..Len(Digits) : Digits[i] = c) - 1

\* a < b for digit strings of the same length
RECURSIVE DigitsLess(_, _)
DigitsLess(a, b) ==
    IF a = <<>> THEN FALSE
    ELSE IF a[1] # b[1] THEN DigitVal(a[1]) < DigitVal(b[1])
    ELSE DigitsLess(Tail(a), Tail(b))

\* a <= b for digit strings without leading zeros
NumeralLeq(a, b) ==
    \/ Len(a) < Len(b)
    \/ Len(a) = Len(b) /\ ~DigitsLess(b, a)

MaxInt64Digits == <<"9", "2", "2", "3", "3", "7", "2", "0", "3", "6", "8",
                    "5", "4", "7", "7", "5", "8", "0", "7">>
MinInt64Digits == <<"9", "2", "2", "3", "3", "7", "2", "0", "3", "6", "8",
                    "5", "4", "7", "7", "5", "8", "0", "8">>

HasSign(s) == Len(s) > 0 /\ s[1] \in {"+", "-"}
Unsigned(s) == IF HasSign(s) THEN Tail(s) ELSE s
IsNeg(s) == Len(s) > 0 /\ s[1] = "-"

\* strconv.ParseInt(s, 10, 64) and strconv.Atoi on a 64-bit build: an optional
\* sign and one or more decimal digits, within the int64 range
IntSyntaxOk(s) ==
    /\ Len(Unsigned(s)) > 0
    /\ \A i \in 1..Len(Unsigned(s)) : IsDigit(Unsigned(s)[i])

IntInRange(s) ==
    LET mag == StripLeadingZeros(Unsigned(s))
    IN  NumeralLeq(mag, IF IsNeg(s) THEN MinInt64Digits ELSE MaxInt64Digits)

ParseIntOk(s) == IntSyntaxOk(s) /\ IntInRange(s)

\* The error of a failed ParseInt or Atoi.  ParseUint reads the digits from the
\* left and reports ErrRange as soon as they exceed 64 bits, before it has
\* seen what follows; a character that is no digit met before that is
\* ErrSyntax; digits that fit 64 bits but not the int64 range are ErrRange.
MaxUint64Digits == <<"1", "8", "4", "4", "6", "7", "4", "4", "0", "7", "3",
                     "7", "0", "9", "5", "5", "1", "6", "1", "5">>

DigitPrefix(s) ==
    SubSeq(s, 1, CHOOSE n \in 0..Len(s) :
                     /\ \A i \in 1..n : IsDigit(s[i])
                     /\ n < Len(s) => ~IsDigit(s[n + 1]))

IntRangeError(s) ==
    IF IntSyntaxOk(s) THEN ~IntInRange(s)
    ELSE ~NumeralLeq(StripLeadingZeros(DigitPrefix(Unsigned(s))), MaxUint64Digits)

IntNumeral(s) ==
    LET mag == StripLeadingZeros(Unsigned(s))
    IN  IF mag = <<>>
        THEN [neg |-> FALSE, mag |-> <<"0">>]
        ELSE [neg |-> IsNeg(s), mag |-> mag]

\* strconv.ParseBool
BoolTrueStrs ==
    { <<"1">>, <<"t">>, <<"T">>, <<"T", "R", "U", "E">>,
      <<"t", "r", "u", "e">>, <<"T", "r", "u", "e">> }
BoolFalseStrs ==
    { <<"0">>, <<"f">>, <<"F">>, <<"F", "A", "L", "S", "E">>,
      <<"f", "a", "l", "s", "e">>, <<"F", "a", "l", "s", "e">> }
ParseBoolOk(s) == s \in BoolTrueStrs \cup BoolFalseStrs

\* strconv.ParseFloat(s, 64).  A special value is an optionally signed "inf"
\* or "infinity", or an unsigned "nan", in any letter case.  A number is an
\* optional sign, an optional 0x, a mantissa (digits, hexadecimal after 0x,
\* with at most one point and at least one digit), and an exponent: optional
\* after a decimal mantissa (e or E), required after a hexadecimal one (p or
\* P), an optional sign and decimal digits.  Underscores may separate digits.
FloatSpecialInf(s) ==
    LowerStr(Unsigned(s)) \in { <<"i", "n", "f">>,
                                <<"i", "n", "f", "i", "n", "i", "t", "y">> }
FloatSpecialNaN(s) == LowerStr(s) = <<"n", "a", "n">>

IsHexDigit(c) == IsDigit(c) \/ AsciiLower(c) \in {"a", "b", "c", "d", "e", "f"}

\* readFloat: the base prefix, looked for when more than two characters follow
\* the sign
FloatIsHex(s) ==
    /\ Len(Unsigned(s)) > 2
    /\ Unsigned(s)[1] = "0"
    /\ AsciiLower(Unsigned(s)[2]) = "x"

FloatBody(s) == IF FloatIsHex(s) THEN Drop(Unsigned(s), 2) ELSE Unsigned(s)

\* the 0-based index of the exponent character (e, or p after 0x) in the body,
\* -1 if there is none
ExpIndex(body, hex) ==
    LET at == {i \in 1..Len(body) : AsciiLower(body[i]) = (IF hex THEN "p" ELSE "e")}
    IN  IF at = {} THEN -1 ELSE (CHOOSE i \in at : \A j \in at : i <= j) - 1

FloatMantissa(s) ==
    IF ExpIndex(FloatBody(s), FloatIsHex(s)) = -1 THEN FloatBody(s)
    ELSE Take(FloatBody(s), ExpIndex(FloatBody(s), FloatIsHex(s)))

\* the text after the exponent character; "0" when there is none
FloatExponent(s) ==
    IF ExpIndex(FloatBody(s), FloatIsHex(s)) # -1
    THEN Drop(FloatBody(s), ExpIndex(FloatBody(s), FloatIsHex(s)) + 1)
    ELSE <<"0">>

\* a mantissa: digits of the base, underscores and at most one point, with a
\* digit among them
MantissaOk(m, hex) ==
    LET digit(c) == IF hex THEN IsHexDigit(c) ELSE IsDigit(c)
    IN  /\ \A i \in 1..Len(m) : digit(m[i]) \/ m[i] = "." \/ m[i] = "_"
        /\ Cardinality({i \in 1..Len(m) : m[i] = "."}) <= 1
        /\ \E i \in 1..Len(m) : digit(m[i])

\* an exponent: an optional sign, a digit, then digits and underscores
ExponentOk(ex) ==
    /\ Len(Unsigned(ex)) > 0
    /\ IsDigit(Unsigned(ex)[1])
    /\ \A i \in 1..Len(Unsigned(ex)) : IsDigit(Unsigned(ex)[i]) \/ Unsigned(ex)[i] = "_"

\* underscoreOK: an underscore stands between two digits, the base prefix
\* counting as a digit; prev is "0" after a digit, "_" after an underscore,
\* "!" after another character and "^" at the start
RECURSIVE UnderscoreScan(_, _, _)
UnderscoreScan(s, prev, hex) ==
    IF s = <<>> THEN prev # "_"
    ELSE IF IsDigit(s[1]) \/ (hex /\ IsHexDigit(s[1])) THEN UnderscoreScan(Tail(s), "0", hex)
    ELSE IF s[1] = "_" THEN prev = "0" /\ UnderscoreScan(Tail(s), "_", hex)
    ELSE IF prev = "_" THEN FALSE
    ELSE UnderscoreScan(Tail(s), "!", hex)

UnderscoreOk(s) ==
    LET b == Unsigned(s)
    IN  IF Len(b) >= 2 /\ b[1] = "0" /\ AsciiLower(b[2]) \in {"b", "o", "x"}
        THEN UnderscoreScan(Drop(b, 2), "0", AsciiLower(b[2]) = "x")
        ELSE UnderscoreScan(b, "^", FALSE)

FloatSyntaxOk(s) ==
    \/ FloatSpecialInf(s)
    \/ FloatSpecialNaN(s)
    \/ /\ MantissaOk(FloatMantissa(s), FloatIsHex(s))
       /\ FloatIsHex(s) => ExpIndex(FloatBody(s), FloatIsHex(s)) # -1
       /\ ExponentOk(FloatExponent(s))
       /\ (\E i \in 1..Len(s) : s[i] = "_") => UnderscoreOk(s)

NoUnderscores(s) == SelectSeq(s, LAMBDA c : c # "_")

\* the exponent, saturating the way strconv's readFloat does
RECURSIVE SatVal(_, _)
SatVal(d, acc) ==
    IF d = <<>> THEN acc
    ELSE SatVal(Tail(d), IF acc < 10000 THEN acc * 10 + DigitVal(d[1]) ELSE acc)

\* a < b for digit strings read as fractions 0.a and 0.b
FracLess(a, b) ==
    LET digit(x, i) == IF i <= Len(x) THEN DigitVal(x[i]) ELSE 0
    IN  \E i \in 1..Len(b) :
            /\ digit(a, i) < digit(b, i)
            /\ \A j \in 1..(i - 1) : digit(a, j) = digit(b, j)

\* 2^1024 - 2^970, the least magnitude that rounds to infinity: its digits,
\* read as 0.digits * 10^309
Float64OverflowDigits ==
    <<
      "1", "7", "9", "7", "6", "9", "3", "1", "3", "4", "8", "6", "2", "3",
      "1", "5", "8", "0", "7", "9", "3", "7", "2", "8", "9", "7", "1", "4",
      "0", "5", "3", "0", "3", "4", "1", "5", "0", "7", "9", "9", "3", "4",
      "1", "3", "2", "7", "1", "0", "0", "3", "7", "8", "2", "6", "9", "3",
      "6", "1", "7", "3", "7", "7", "8", "9", "8", "0", "4", "4", "4", "9",
      "6", "8", "2", "9", "2", "7", "6", "4", "7", "5", "0", "9", "4", "6",
      "6", "4", "9", "0", "1", "7", "9", "7", "7", "5", "8", "7", "2", "0",
      "7", "0", "9", "6", "3", "3", "0", "2", "8", "6", "4", "1", "6", "6",
      "9", "2", "8", "8", "7", "9", "1", "0", "9", "4", "6", "5", "5", "5",
      "5", "4", "7", "8", "5", "1", "9", "4", "0", "4", "0", "2", "6", "3",
      "0", "6", "5", "7", "4", "8", "8", "6", "7", "1", "5", "0", "5", "8",
      "2", "0", "6", "8", "1", "9", "0", "8", "9", "0", "2", "0", "0", "0",
      "7", "0", "8", "3", "8", "3", "6", "7", "6", "2", "7", "3", "8", "5",
      "4", "8", "4", "5", "8", "1", "7", "7", "1", "1", "5", "3", "1", "7",
      "6", "4", "4", "7", "5", "7", "3", "0", "2", "7", "0", "0", "6", "9",
      "8", "5", "5", "5", "7", "1", "3", "6", "6", "9", "5", "9", "6", "2",
      "2", "8", "4", "2", "9", "1", "4", "8", "1", "9", "8", "6", "0", "8",
      "3", "4", "9", "3", "6", "4", "7", "5", "2", "9", "2", "7", "1", "9",
      "0", "7", "4", "1", "6", "8", "4", "4", "4", "3", "6", "5", "5", "1",
      "0", "7", "0", "4", "3", "4", "2", "7", "1", "1", "5", "5", "9", "6",
      "9", "9", "5", "0", "8", "0", "9", "3", "0", "4", "2", "8", "8", "0",
      "1", "7", "7", "9", "0", "4", "1", "7", "4", "4", "9", "7", "7", "9",
      "2"
    >>

\* 2^-1075, the greatest magnitude that rounds to zero: its digits, read as
\* 0.digits * 10^-323
Float64UnderflowDigits ==
    <<
      "2", "4", "7", "0", "3", "2", "8", "2", "2", "9", "2", "0", "6", "2",
      "3", "2", "7", "2", "0", "8", "8", "2", "8", "4", "3", "9", "6", "4",
      "3", "4", "1", "1", "0", "6", "8", "6", "1", "8", "2", "5", "2", "9",
      "9", "0", "1", "3", "0", "7", "1", "6", "2", "3", "8", "2", "2", "1",
      "2", "7", "9", "2", "8", "4", "1", "2", "5", "0", "3", "3", "7", "7",
      "5", "3", "6", "3", "5", "1", "0", "4", "3", "7", "5", "9", "3", "2",
      "6", "4", "9", "9", "1", "8", "1", "8", "0", "8", "1", "7", "9", "9",
      "6", "1", "8", "9", "8", "9", "8", "2", "8", "2", "3", "4", "7", "7",
      "2", "2", "8", "5", "8", "8", "6", "5", "4", "6", "3", "3", "2", "8",
      "3", "5", "5", "1", "7", "7", "9", "6", "9", "8", "9", "8", "1", "9",
      "9", "3", "8", "7", "3", "9", "8", "0", "0", "5", "3", "9", "0", "9",
      "3", "9", "0", "6", "3", "1", "5", "0", "3", "5", "6", "5", "9", "5",
      "1", "5", "5", "7", "0", "2", "2", "6", "3", "9", "2", "2", "9", "0",
      "8", "5", "8", "3", "9", "2", "4", "4", "9", "1", "0", "5", "1", "8",
      "4", "4", "3", "5", "9", "3", "1", "8", "0", "2", "8", "4", "9", "9",
      "3", "6", "5", "3", "6", "1", "5", "2", "5", "0", "0", "3", "1", "9",
      "3", "7", "0", "4", "5", "7", "6", "7", "8", "2", "4", "9", "2", "1",
      "9", "3", "6", "5", "6", "2", "3", "6", "6", "9", "8", "6", "3", "6",
      "5", "8", "4", "8", "0", "7", "5", "7", "0", "0", "1", "5", "8", "5",
      "7", "6", "9", "2", "6", "9", "9", "0", "3", "7", "0", "6", "3", "1",
      "1", "9", "2", "8", "2", "7", "9", "5", "5", "8", "5", "5", "1", "3",
      "3", "2", "9", "2", "7", "8", "3", "4", "3", "3", "8", "4", "0", "9",
      "3", "5", "1", "9", "7", "8", "0", "1", "5", "5", "3", "1", "2", "4",
      "6", "5", "9", "7", "2", "6", "3", "5", "7", "9", "5", "7", "4", "6",
      "2", "2", "7", "6", "6", "4", "6", "5", "2", "7", "2", "8", "2", "7",
      "2", "2", "0", "0", "5", "6", "3", "7", "4", "0", "0", "6", "4", "8",
      "5", "4", "9", "9", "9", "7", "7", "0", "9", "6", "5", "9", "9", "4",
      "7", "0", "4", "5", "4", "0", "2", "0", "8", "2", "8", "1", "6", "6",
      "2", "2", "6", "2", "3", "7", "8", "5", "7", "3", "9", "3", "4", "5",
      "0", "7", "3", "6", "3", "3", "9", "0", "0", "7", "9", "6", "7", "7",
      "6", "1", "9", "3", "0", "5", "7", "7", "5", "0", "6", "7", "4", "0",
      "1", "7", "6", "3", "2", "4", "6", "7", "3", "6", "0", "0", "9", "6",
      "8", "9", "5", "1", "3", "4", "0", "5", "3", "5", "5", "3", "7", "4",
      "5", "8", "5", "1", "6", "6", "6", "1", "1", "3", "4", "2", "2", "3",
      "7", "6", "6", "6", "7", "8", "6", "0", "4", "1", "6", "2", "1", "5",
      "9", "6", "8", "0", "4", "6", "1", "9", "1", "4", "4", "6", "7", "2",
      "9", "1", "8", "4", "0", "3", "0", "0", "5", "3", "0", "0", "5", "7",
      "5", "3", "0", "8", "4", "9", "0", "4", "8", "7", "6", "5", "3", "9",
      "1", "7", "1", "1", "3", "8", "6", "5", "9", "1", "6", "4", "6", "2",
      "3", "9", "5", "2", "4", "9", "1", "2", "6", "2", "3", "6", "5", "3",
      "8", "8", "1", "8", "7", "9", "6", "3", "6", "2", "3", "9", "3", "7",
      "3", "2", "8", "0", "4", "2", "3", "8", "9", "1", "0", "1", "8", "6",
      "7", "2", "3", "4", "8", "4", "9", "7", "6", "6", "8", "2", "3", "5",
      "0", "8", "9", "8", "6", "3", "3", "8", "8", "5", "8", "7", "9", "2",
      "5", "6", "2", "8", "3", "0", "2", "7", "5", "5", "9", "9", "5", "6",
      "5", "7", "5", "2", "4", "4", "5", "5", "5", "0", "7", "2", "5", "5",
      "1", "8", "9", "3", "1", "3", "6", "9", "0", "8", "3", "6", "2", "5",
      "4", "7", "7", "9", "1", "8", "6", "9", "4", "8", "6", "6", "7", "9",
      "9", "4", "9", "6", "8", "3", "2", "4", "0", "4", "9", "7", "0", "5",
      "8", "2", "1", "0", "2", "8", "5", "1", "3", "1", "8", "5", "4", "5",
      "1", "3", "9", "6", "2", "1", "3", "8", "3", "7", "7", "2", "2", "8",
      "2", "6", "1", "4", "5", "4", "3", "7", "6", "9", "3", "4", "1", "2",
      "5", "3", "2", "0", "9", "8", "5", "9", "1", "3", "2", "7", "6", "6",
      "7", "2", "3", "6", "3", "2", "8", "1", "2", "5"
    >>

\* the canonical form of a numeral: 0.mant * 10^point, mant without leading
\* or trailing zeros (exact; it stands for the float64 nearest to it)
FloatValue(cls, neg, mant, point) ==
    [cls |-> cls, neg |-> neg, mant |-> mant, point |-> point]

FloatParts(m) ==
    IF IndexChar(m, ".") = -1
    THEN [int |-> m, frac |-> <<>>]
    ELSE [int |-> Take(m, IndexChar(m, ".")), frac |-> Drop(m, IndexChar(m, ".") + 1)]

ExpValue(ex) == (IF IsNeg(ex) THEN -1 ELSE 1) * SatVal(NoUnderscores(Unsigned(ex)), 0)

Canonical(neg, lead, mant, fracLen, expVal) ==
    IF mant = <<>> THEN FloatValue("num", neg, <<>>, 0)
    ELSE FloatValue("num", neg, mant, expVal - fracLen + Len(lead))

Significant(neg, lead, fracLen, expVal) ==
    Canonical(neg, lead, StripTrailingZeros(lead), fracLen, expVal)

DecimalNumeral(neg, parts, ex) ==
    Significant(neg, StripLeadingZeros(parts.int \o parts.frac), Len(parts.frac),
                ExpValue(ex))

\* the decimal digits of a natural number (none for 0)
RECURSIVE NatDigits(_)
NatDigits(n) == IF n = 0 THEN <<>> ELSE Append(NatDigits(n \div 10), Digits[(n % 10) + 1])

\* d * k + a for a decimal digit string d and naturals k and a: the digits
\* at the places of d and the carry out of them, by halves (the low half
\* first, its carry goes into the high half)
RECURSIVE MulAddPlaces(_, _, _)
MulAddPlaces(d, k, a) ==
    IF d = <<>> THEN [digits |-> <<>>, carry |-> a]
    ELSE IF Len(d) = 1
    THEN [digits |-> <<Digits[((DigitVal(d[1]) * k + a) % 10) + 1]>>,
          carry |-> (DigitVal(d[1]) * k + a) \div 10]
    ELSE LET low == MulAddPlaces(Drop(d, Len(d) \div 2), k, a)
         IN  IF Len(low.digits) = 0 THEN low
             ELSE LET high == MulAddPlaces(Take(d, Len(d) \div 2), k, low.carry)
                  IN  [digits |-> high.digits \o low.digits, carry |-> high.carry]

MulAdd(d, k, a) ==
    LET r == MulAddPlaces(d, k, a) IN NatDigits(r.carry) \o r.digits

\* d * k^n, taken size factors at a time (chunk = k^size)
RECURSIVE TimesPower(_, _, _, _, _)
TimesPower(d, k, chunk, size, n) ==
    IF d = <<>> \/ n = 0 THEN d
    ELSE IF n >= size THEN TimesPower(MulAdd(d, chunk, 0), k, chunk, size, n - size)
    ELSE TimesPower(MulAdd(d, k, 0), k, chunk, size, n - 1)

HexVal(c) ==
    IF IsDigit(c) THEN DigitVal(c)
    ELSE 9 + (CHOOSE i \in 1..6 : LowerChars[i] = AsciiLower(c))

\* the integer a string of hexadecimal digits denotes, in decimal digits
RECURSIVE HexInteger(_, _)
HexInteger(h, acc) ==
    IF h = <<>> THEN acc ELSE HexInteger(Tail(h), MulAdd(acc, 16, HexVal(h[1])))

\* m * 2^e2 for decimal digits m: exactly, when the result may be a finite,
\* non-zero float64; "huge" when it is beyond every float64 (2^1100 and more),
\* zero when it is below every one (less than 2^-1100)
BinaryScaled(neg, m, bits, e2) ==
    IF m = <<>> THEN FloatValue("num", neg, <<>>, 0)
    ELSE IF e2 > 1100 THEN FloatValue("huge", neg, <<>>, 0)
    ELSE IF e2 + bits < -1100 THEN FloatValue("num", neg, <<>>, 0)
    ELSE IF e2 >= 0 THEN Significant(neg, TimesPower(m, 2, 1048576, 20, e2), 0, 0)
    ELSE Significant(neg, TimesPower(m, 5, 1953125, 9, -e2), -e2, 0)

\* a hexadecimal numeral: mantissa * 2^(exponent - 4 * fraction digits)
HexNumeral(neg, parts, ex) ==
    BinaryScaled(neg, StripLeadingZeros(HexInteger(parts.int \o parts.frac, <<>>)),
                 4 * Len(parts.int \o parts.frac),
                 ExpValue(ex) - 4 * Len(parts.frac))

\* a magnitude of 2^-1075 or less is the float64 zero
Underflows(f) ==
    /\ f.cls = "num"
    /\ f.mant # <<>>
    /\ \/ f.point < -323
       \/ f.point = -323 /\ ~FracLess(Float64UnderflowDigits, f.mant)

Rounded(f) == IF Underflows(f) THEN FloatValue("num", f.neg, <<>>, 0) ELSE f

FloatNumeral(s) ==
    IF FloatSpecialInf(s) THEN FloatValue("inf", IsNeg(s), <<>>, 0)
    ELSE IF FloatSpecialNaN(s) THEN FloatValue("nan", FALSE, <<>>, 0)
    ELSE IF FloatIsHex(s)
    THEN Rounded(HexNumeral(IsNeg(s), FloatParts(NoUnderscores(FloatMantissa(s))),
                            FloatExponent(s)))
    ELSE Rounded(DecimalNumeral(IsNeg(s), FloatParts(NoUnderscores(FloatMantissa(s))),
                                FloatExponent(s)))

FloatFits(f) ==
    \/ f.cls \in {"inf", "nan"}
    \/ f.cls = "num" /\ f.point < 309
    \/ f.cls = "num" /\ f.point = 309 /\ FracLess(f.mant, Float64OverflowDigits)

FloatInRange(s) == FloatFits(FloatNumeral(s))

ParseFloatOk(s) == FloatSyntaxOk(s) /\ FloatInRange(s)

(***************************************************************************)
(* Types (reflect.Type), values (reflect.Value) and errors.                *)
(***************************************************************************)
PrimKinds == {"string", "int", "int64", "float64", "bool"}

Prim(k)      == [kind |-> k, ptr |-> FALSE, st |-> "none"]
PtrTo(k)     == [kind |-> k, ptr |-> TRUE, st |-> "none"]
StructT(id)  == [kind |-> "struct", ptr |-> FALSE, st |-> id]
PtrStruct(id) == [kind |-> "struct", ptr |-> TRUE, st |-> id]

\* t.Kind() and t.Elem()
Kind(t) == IF t.ptr THEN "ptr" ELSE t.kind
Elem(t) == [t EXCEPT !.ptr = FALSE]

\* the test Run and printCommandHelp make of a parameter type
IsStructParam(t) ==
    Kind(t) = "struct" \/ (Kind(t) = "ptr" /\ Kind(Elem(t)) = "struct")

StrV(s)   == [k |-> "string", v |-> s]
IntV(n)   == [k |-> "int", v |-> n]
Int64V(n) == [k |-> "int64", v |-> n]
FloatV(f) == [k |-> "float64", v |-> f]
BoolV(b)  == [k |-> "bool", v |-> b]
PtrV(v)   == [k |-> "ptr", v |-> v]
Nil       == [k |-> "nil"]
Invalid   == [k |-> "invalid"]

\* the kinds parseValue has no case for whose zero value is a number
OtherIntKinds == {"int8", "int16", "int32", "uint", "uint8", "uint16", "uint32",
                  "uint64", "uintptr"}

\* the zero value reflect.New(t).Elem() gives a field of type t: a valid
\* value for every type
Zero(t) ==
    IF t.ptr THEN Nil
    ELSE CASE t.kind = "string"  -> StrV(<<>>)
           [] t.kind = "int"     -> IntV(IntNumeral(<<"0">>))
           [] t.kind = "int64"   -> Int64V(IntNumeral(<<"0">>))
           [] t.kind = "float64" -> FloatV(FloatNumeral(<<"0">>))
           [] t.kind = "bool"    -> BoolV(FALSE)
           [] t.kind \in OtherIntKinds -> [k |-> t.kind, v |-> IntNumeral(<<"0">>)]
           [] t.kind = "float32" -> [k |-> "float32", v |-> FloatNumeral(<<"0">>)]
           [] OTHER              -> [k |-> t.kind, v |-> "zero"]

NoErr == [kind |-> "nil"]
IsErr(e) == e.kind # "nil"

\* strconv's *NumError: the function, the input and ErrSyntax or ErrRange
NumError(fn, s, rangeError) ==
    [kind |-> IF rangeError THEN "range" ELSE "syntax", fn |-> fn, tok |-> s]

\* parseValue: a result is the value and the error
parseValue(s, targetType) ==
    CASE Kind(targetType) = "string" ->
            [v |-> StrV(s), err |-> NoErr]
      [] Kind(targetType) = "int" ->
            IF ParseIntOk(s)
            THEN [v |-> IntV(IntNumeral(s)), err |-> NoErr]
            ELSE [v |-> Invalid, err |-> NumError("Atoi", s, IntRangeError(s))]
      [] Kind(targetType) = "int64" ->
            IF ParseIntOk(s)
            THEN [v |-> Int64V(IntNumeral(s)), err |-> NoErr]
            ELSE [v |-> Invalid, err |-> NumError("ParseInt", s, IntRangeError(s))]
      [] Kind(targetType) = "float64" ->
            IF ParseFloatOk(s)
            THEN [v |-> FloatV(FloatNumeral(s)), err |-> NoErr]
            ELSE [v |-> Invalid, err |-> NumError("ParseFloat", s, FloatSyntaxOk(s))]
      [] Kind(targetType) = "bool" ->
            IF ParseBoolOk(s)
            THEN [v |-> BoolV(s \in BoolTrueStrs), err |-> NoErr]
            ELSE [v |-> Invalid, err |-> NumError("ParseBool", s, FALSE)]
      [] OTHER ->
            [v |-> Invalid, err |-> [kind |-> "unsupported parameter type", type |-> targetType]]

\* the pointer parseAndSetField makes of a parsed value
WrapPtr(r) == IF IsErr(r.err) THEN r ELSE [v |-> PtrV(r.v), err |-> NoErr]

\* parseAndSetField: the value the field is set to, or the error
parseAndSetField(fieldType, value) ==
    IF Kind(fieldType) = "ptr"
    THEN WrapPtr(parseValue(value, Elem(fieldType)))
    ELSE parseValue(value, fieldType)

\* (mutant) setBoolField sets plain bool fields only
setBoolFieldPlain(fieldType, cur) ==
    IF Kind(fieldType) = "bool" THEN BoolV(TRUE) ELSE cur

\* setBoolField: the field's value afterwards, given its value before
setBoolField(fieldType, cur) ==
    IF Kind(fieldType) = "bool" THEN BoolV(TRUE)
    ELSE IF Kind(fieldType) = "ptr" /\ Kind(Elem(fieldType)) = "bool" THEN PtrV(BoolV(TRUE))
    ELSE cur

\* (mutant) only plain bool fields are flags
isBoolFieldPlain(fieldType) == Kind(fieldType) = "bool"

isBoolField(fieldType) ==
    \/ Kind(fieldType) = "bool"
    \/ Kind(fieldType) = "ptr" /\ Kind(Elem(fieldType)) = "bool"

(***************************************************************************)
(* Record types.  A field is its name, its type and its tags; a tag is     *)
(* what reflect.StructTag.Lookup returns: whether it is there, and its     *)
(* value.                                                                  *)
(***************************************************************************)
Tag(v) == [has |-> TRUE, v |-> v]
NoTag  == [has |-> FALSE, v |-> <<>>]

Field(name, type, arg, long, short) ==
    [name |-> name, type |-> type, arg |-> arg, long |-> long, short |-> short]

\* toKebab: CamelCase to kebab-case
RECURSIVE toKebabFrom(_, _)
toKebabFrom(s, i) ==
    IF i > Len(s) THEN <<>>
    ELSE (IF IsUpper(s[i])
          THEN (IF i > 1 THEN <<"-">> ELSE <<>>) \o <<ToLower(s[i])>>
          ELSE <<s[i]>>) \o toKebabFrom(s, i + 1)

toKebab(s) == toKebabFrom(s, 1)

\* The record types handlers of the model take.
\*   CreateTextArgs (src/cliapp_test.go):
\*       Input string `arg:"0"`; Output string `long:"--out" short:"-o"`;
\*       UseMarkdown bool `flag:"" long:"--usemarkdown"`
\*   OptionalArgs (after README.md, "Mapping to Structs"):
\*       Input string `arg:"0"`; Output *string `short:"-o"`; Count *int;
\*       DryRun *bool `short:"-d"`
\*   FlagArgs (boolean fields with and without the flag tag, which the binder
\*   does not read):
\*       Verbose bool `short:"-v"`; Quiet *bool `flag:"" short:"-q"`;
\*       Name string `short:"-n"`
\*   GapArgs (positional indices with gaps, declared out of order):
\*       Last string `arg:"5"`; First string `arg:"0"`; Mid string `arg:"2"`;
\*       Verbose bool `short:"-v"`
\*   DupArgs (names declared by more than one field):
\*     Name string `short:"-n"`; Alias string `long:"--name"`;
\*     Nick *string `short:"-n"`
\*   DualArgs (a field both positional and named, a field with an empty long
\*   tag):
\*       Input string `arg:"0" long:"--in" short:"-i"`; Output string `long:""`
StructFields(id) ==
    CASE id = "CreateTextArgs" ->
           << Field(<<"I", "n", "p", "u", "t">>, Prim("string"),
                    Tag(<<"0">>), NoTag, NoTag),
              Field(<<"O", "u", "t", "p", "u", "t">>, Prim("string"),
                    NoTag, Tag(<<"-", "-", "o", "u", "t">>), Tag(<<"-", "o">>)),
              Field(<<"U", "s", "e", "M", "a", "r", "k", "d", "o", "w", "n">>, Prim("bool"),
                    NoTag, Tag(<<"-", "-", "u", "s", "e", "m", "a", "r", "k", "d", "o", "w", "n">>),
                    NoTag) >>
      [] id = "OptionalArgs" ->
           << Field(<<"I", "n", "p", "u", "t">>, Prim("string"),
                    Tag(<<"0">>), NoTag, NoTag),
              Field(<<"O", "u", "t", "p", "u", "t">>, PtrTo("string"),
                    NoTag, NoTag, Tag(<<"-", "o">>)),
              Field(<<"C", "o", "u", "n", "t">>, PtrTo("int"),
                    NoTag, NoTag, NoTag),
              Field(<<"D", "r", "y", "R", "u", "n">>, PtrTo("bool"),
                    NoTag, NoTag, Tag(<<"-", "d">>)) >>
      [] id = "FlagArgs" ->
           << Field(<<"V", "e", "r", "b", "o", "s", "e">>, Prim("bool"), NoTag, NoTag, Tag(<<"-", "v">>)),
              Field(<<"Q", "u", "i", "e", "t">>, PtrTo("bool"), NoTag, NoTag, Tag(<<"-", "q">>)),
              Field(<<"N", "a", "m", "e">>, Prim("string"), NoTag, NoTag, Tag(<<"-", "n">>)) >>
      [] id = "GapArgs" ->
           << Field(<<"L", "a", "s", "t">>, Prim("string"), Tag(<<"5">>), NoTag, NoTag),
              Field(<<"F", "i", "r", "s", "t">>, Prim("string"), Tag(<<"0">>), NoTag, NoTag),
              Field(<<"M", "i", "d">>, Prim("string"), Tag(<<"2">>), NoTag, NoTag),
              Field(<<"V", "e", "r", "b", "o", "s", "e">>, Prim("bool"), NoTag, NoTag, Tag(<<"-", "v">>)) >>
      [] id = "DualArgs" ->
           << Field(<<"I", "n", "p", "u", "t">>, Prim("string"), Tag(<<"0">>), Tag(<<"-", "-", "i", "n">>), Tag(<<"-", "i">>)),
              Field(<<"O", "u", "t", "p", "u", "t">>, Prim("string"), NoTag, Tag(<<>>), NoTag) >>
      [] id = "DupArgs" ->
           << Field(<<"N", "a", "m", "e">>, Prim("string"), NoTag, NoTag, Tag(<<"-", "n">>)),
              Field(<<"A", "l", "i", "a", "s">>, Prim("string"), NoTag, Tag(<<"-", "-", "n", "a", "m", "e">>), NoTag),
              Field(<<"N", "i", "c", "k">>, PtrTo("string"), NoTag, NoTag, Tag(<<"-", "n">>)) >>
      [] OTHER -> <<>>

\* (mutant) a map that keeps the first value stored under a key
PutFirst(m, k, v) == [x \in DOMAIN m \cup {k} |-> IF x \in DOMAIN m THEN m[x] ELSE v]

\* a Go map after m[k] = v
Put(m, k, v) == [x \in DOMAIN m \cup {k} |-> IF x = k THEN v ELSE m[x]]
EmptyMap == <<>>

\* the int strconv.Atoi returns for a tag value (exact; TLC's integers hold
\* the values up to 2147483647)
RECURSIVE NatValue(_, _)
NatValue(d, acc) == IF d = <<>> THEN acc ELSE NatValue(Tail(d), acc * 10 + DigitVal(d[1]))

AtoiValue(s) == (IF IsNeg(s) THEN -1 ELSE 1) * NatValue(StripLeadingZeros(Unsigned(s)), 0)

\* buildFieldMaps: position -> field, long name -> field, short name -> field
\* (fields are numbered from 1 here, from 0 in Go)
RECURSIVE buildFieldMapsFrom(_, _, _)
buildFieldMapsFrom(fs, i, maps) ==
    IF i > Len(fs) THEN maps
    ELSE LET f == fs[i]
             m1 == IF f.arg.has
                   THEN IF ParseIntOk(f.arg.v)
                        THEN [maps EXCEPT !.pos = Put(@, AtoiValue(f.arg.v), i)]
                        ELSE maps
                   ELSE LET longName == IF f.long.has THEN f.long.v
                                        ELSE <<"-", "-">> \o toKebab(f.name)
                            ml == [maps EXCEPT !.long = Put(@, longName, i)]
                        IN  IF f.short.has
                            THEN [ml EXCEPT !.short = Put(@, f.short.v, i)]
                            ELSE ml
             m2 == IF f.long.has THEN [m1 EXCEPT !.long = Put(@, f.long.v, i)] ELSE m1
             m3 == IF f.short.has THEN [m2 EXCEPT !.short = Put(@, f.short.v, i)] ELSE m2
         IN  buildFieldMapsFrom(fs, i + 1, m3)

buildFieldMaps(t) ==
    buildFieldMapsFrom(StructFields(t.st), 1,
                       [pos |-> EmptyMap, long |-> EmptyMap, short |-> EmptyMap])

MaxKey(m) == CHOOSE k \in DOMAIN m : \A j \in DOMAIN m : j <= k

\* parseStructArgs, first pass: positions 0..max in ascending order; st is the
\* record value, the consumed count and the error so far
RECURSIVE positionalPass(_, _, _, _, _, _)
RECURSIVE positionalSet(_, _, _, _, _, _, _, _)

\* the field fi at position p, given the result r of parseAndSetField
positionalSet(raw, fs, posFields, p, max, st, fi, r) ==
    IF IsErr(r.err)
    THEN [st EXCEPT !.err = [kind |-> "failed to parse positional arg",
                             pos |-> p, cause |-> r.err]]
    ELSE positionalPass(raw, fs, posFields, p + 1, max,
                        [st EXCEPT !.sv[fi] = r.v, !.consumed = @ + 1])

\* (mutant) an index no field declares uses up a token too
positionalPassDense(raw, fs, posFields, p, max, st) ==
    IF p > max THEN st
    ELSE IF p \notin DOMAIN posFields
    THEN positionalPass(raw, fs, posFields, p + 1, max, [st EXCEPT !.consumed = @ + 1])
    ELSE IF st.consumed >= Len(raw)
    THEN [st EXCEPT !.err = [kind |-> "not enough positional args", pos |-> p]]
    ELSE positionalSet(raw, fs, posFields, p, max, st, posFields[p],
                       parseAndSetField(fs[posFields[p]].type, raw[st.consumed + 1]))

positionalPass(raw, fs, posFields, p, max, st) ==
    IF p > max THEN st
    ELSE IF p \notin DOMAIN posFields
    THEN positionalPass(raw, fs, posFields, p + 1, max, st)
    ELSE IF st.consumed >= Len(raw)
    THEN [st EXCEPT !.err = [kind |-> "not enough positional args", pos |-> p]]
    ELSE positionalSet(raw, fs, posFields, p, max, st, posFields[p],
                       parseAndSetField(fs[posFields[p]].type, raw[st.consumed + 1]))

\* a step of the option scan: the field values, the next index and the error
ScanStep(sv, next, err) == [sv |-> sv, next |-> next, err |-> err]

\* field fi set from the result r of parseAndSetField, the scan moving to next
optionValue(sv, fi, name, next, r) ==
    IF IsErr(r.err)
    THEN ScanStep(sv, next, [kind |-> "failed to parse value for option",
                             tok |-> name, cause |-> r.err])
    ELSE ScanStep([sv EXCEPT ![fi] = r.v], next, NoErr)

\* (mutant) a value that looks like an option is not taken
namedOptionGuarded(raw, fs, fi, i, name, sv) ==
    IF isBoolField(fs[fi].type)
    THEN ScanStep([sv EXCEPT ![fi] = setBoolField(fs[fi].type, @)], i + 1, NoErr)
    ELSE IF i + 1 >= Len(raw) \/ (Len(raw[i + 2]) >= 2 /\ raw[i + 2][1] = "-")
    THEN ScanStep(sv, i, [kind |-> "missing value", tok |-> name])
    ELSE optionValue(sv, fi, name, i + 2, parseAndSetField(fs[fi].type, raw[i + 2]))

\* one known option (long without "=", or short) at 0-based index i
namedOption(raw, fs, fi, i, name, sv) ==
    IF isBoolField(fs[fi].type)
    THEN ScanStep([sv EXCEPT ![fi] = setBoolField(fs[fi].type, @)], i + 1, NoErr)
    ELSE IF i + 1 >= Len(raw)
    THEN ScanStep(sv, i, [kind |-> "missing value", tok |-> name])
    ELSE optionValue(sv, fi, name, i + 2, parseAndSetField(fs[fi].type, raw[i + 2]))

\* (mutant) a "--name=value" token with an unknown name is an error
assignedOptionStrict(fs, long, i, name, val, sv) ==
    IF name \in DOMAIN long
    THEN optionValue(sv, long[name], name, i + 1,
                     parseAndSetField(fs[long[name]].type, val))
    ELSE ScanStep(sv, i, [kind |-> "unknown option", tok |-> name])

\* (mutant) every "--name=value" token is skipped
assignedOptionSkipped(fs, long, i, name, val, sv) ==
    ScanStep(sv, i + 1, NoErr)

\* (mutant) a "--name=value" token moves the scan on by two tokens
assignedOptionWide(fs, long, i, name, val, sv) ==
    IF name \in DOMAIN long
    THEN optionValue(sv, long[name], name, i + 2,
                     parseAndSetField(fs[long[name]].type, val))
    ELSE ScanStep(sv, i + 2, NoErr)

\* a "--name=value" token at 0-based index i: unknown names are skipped
assignedOption(fs, long, i, name, val, sv) ==
    IF name \in DOMAIN long
    THEN optionValue(sv, long[name], name, i + 1,
                     parseAndSetField(fs[long[name]].type, val))
    ELSE ScanStep(sv, i + 1, NoErr)

\* the token at 0-based index i, which begins with a dash: its step
optionToken(raw, fs, maps, i, tok, sv) ==
    IF HasPrefix(tok, <<"-", "-">>)
    THEN IF IndexChar(tok, "=") # -1
         THEN assignedOption(fs, maps.long, i, Take(tok, IndexChar(tok, "=")),
                             Drop(tok, IndexChar(tok, "=") + 1), sv)
         ELSE IF tok \in DOMAIN maps.long
         THEN namedOption(raw, fs, maps.long[tok], i, tok, sv)
         ELSE ScanStep(sv, i, [kind |-> "unknown option", tok |-> tok])
    ELSE IF tok \in DOMAIN maps.short
    THEN namedOption(raw, fs, maps.short[tok], i, tok, sv)
    ELSE ScanStep(sv, i, [kind |-> "unknown option", tok |-> tok])

\* whether the option scan takes the token as an option (long or short form)
IsOptionToken(tok) ==
    HasPrefix(tok, <<"-", "-">>) \/ (HasPrefix(tok, <<"-">>) /\ Len(tok) >= 2)

\* parseStructArgs, second pass: the option scan from 0-based index i
RECURSIVE optionScan(_, _, _, _, _)
RECURSIVE scanNext(_, _, _, _, _)

scanNext(raw, fs, maps, st, o) ==
    IF IsErr(o.err) THEN [st EXCEPT !.err = o.err]
    ELSE optionScan(raw, fs, maps, o.next, [st EXCEPT !.sv = o.sv])

\* (mutant) a token that is no option is an error
optionScanStrict(raw, fs, maps, i, st) ==
    IF i >= Len(raw) THEN st
    ELSE IF IsOptionToken(raw[i + 1])
    THEN scanNext(raw, fs, maps, st, optionToken(raw, fs, maps, i, raw[i + 1], st.sv))
    ELSE [st EXCEPT !.err = [kind |-> "unexpected argument", tok |-> raw[i + 1]]]

optionScan(raw, fs, maps, i, st) ==
    IF i >= Len(raw) THEN st
    ELSE IF IsOptionToken(raw[i + 1])
    THEN scanNext(raw, fs, maps, st, optionToken(raw, fs, maps, i, raw[i + 1], st.sv))
    ELSE st

\* the new record value: every field at its zero value
NewStruct(fs) ==
    [sv |-> [i \in 1..Len(fs) |-> Zero(fs[i].type)], consumed |-> 0, err |-> NoErr]

afterPositional(raw, fs, maps, st) ==
    IF IsErr(st.err) THEN st ELSE optionScan(raw, fs, maps, st.consumed, st)

bindFields(raw, fs, maps) ==
    afterPositional(raw, fs, maps,
                    IF DOMAIN maps.pos # {}
                    THEN positionalPass(raw, fs, maps.pos, 0, MaxKey(maps.pos), NewStruct(fs))
                    ELSE NewStruct(fs))

\* parseStructArgs(raw, t): the record value (its fields' values, in field
\* order), the consumed count and the error
parseStructArgs(raw, t) ==
    IF Kind(t) # "struct"
    THEN [sv |-> <<>>, consumed |-> 0, err |-> [kind |-> "t must be struct"]]
    ELSE bindFields(raw, StructFields(t.st), buildFieldMaps(t))

(***************************************************************************)
(* The App.                                                                *)
(*                                                                         *)
(* A function value passed to Add is its identity, its parameter types,    *)
(* its result types, what it returns as its last result when that is an    *)
(* error ("nil" or "error"), and whether it writes to the normal sink.     *)
(***************************************************************************)
VARIABLES
    cmds,         \* App.cmds: command name -> handler
    root,         \* App.root: <<>> (nil) or <<handler>>
    exitOnError,  \* App.opts.ExitOnError
    ret,          \* the error the latest call of Run returned (NoErr: nil)
    log,          \* what the latest operation wrote to opts.Log
    logErr,       \* what the latest operation wrote to opts.LogError
    calls,        \* the handler invocations of the latest operation
    exited,       \* os.Exit(1) was called
    panicked,     \* the panic that ended the program ("" if none)
    last          \* the latest operation: its kind, its inputs and, for Run,
                  \* the command it resolved

vars == <<cmds, root, exitOnError, ret, log, logErr, calls, exited, panicked, last>>

Func(id, in, out, result, writes) ==
    [any |-> "func", id |-> id, in |-> in, out |-> out, result |-> result,
     writes |-> writes]
StringArg(s) == [any |-> "string", s |-> s]
OtherArg     == [any |-> "int"]

\* the handler Add builds from a function value and a help text
MakeHandler(fn, help) ==
    [fn |-> fn,
     targs |-> fn.in,
     expectsError |-> Len(fn.out) > 0 /\ fn.out[Len(fn.out)] = "error",
     help |-> help]

NoLast == [op |-> "none"]

Init ==
    /\ cmds = EmptyMap
    /\ root = <<>>
    /\ exitOnError \in BOOLEAN
    /\ ret = NoErr
    /\ log = <<>>
    /\ logErr = <<>>
    /\ calls = <<>>
    /\ exited = FALSE
    /\ panicked = ""
    /\ last = NoLast

\* the program runs: it has neither exited nor panicked
Running == ~exited /\ panicked = ""

\* what Add panics with for this argument list ("" if it does not)
AddPanic(rest) ==
    IF Len(rest) = 1
    THEN IF rest[1].any # "func" THEN "handler must be a function" ELSE ""
    ELSE IF Len(rest) = 2
    THEN IF rest[1].any # "string" THEN "help must be a string"
         ELSE IF rest[2].any # "func" THEN "handler must be a function"
         ELSE ""
    ELSE "Add method requires either (name, fn) or (name, help, fn)"

AddHandler(rest) ==
    IF Len(rest) = 1 THEN MakeHandler(rest[1], <<>>)
    ELSE MakeHandler(rest[2], rest[1].s)

\* (mutant) a name that is registered keeps its handler
AddFirstWins(name, rest) ==
    /\ Running
    /\ IF AddPanic(rest) # ""
       THEN /\ panicked' = AddPanic(rest)
            /\ UNCHANGED <<cmds, root>>
       ELSE /\ panicked' = panicked
            /\ IF name = <<>>
               THEN root' = <<AddHandler(rest)>> /\ cmds' = cmds
               ELSE /\ cmds' = IF name \in DOMAIN cmds THEN cmds
                                ELSE Put(cmds, name, AddHandler(rest))
                    /\ root' = root
    /\ ret' = NoErr
    /\ log' = <<>>
    /\ logErr' = <<>>
    /\ calls' = <<>>
    /\ last' = [op |-> "Add", name |-> name, rest |-> rest]
    /\ UNCHANGED <<exitOnError, exited>>

\* App.Add(name, rest...)
Add(name, rest) ==
    /\ Running
    /\ IF AddPanic(rest) # ""
       THEN /\ panicked' = AddPanic(rest)
            /\ UNCHANGED <<cmds, root>>
       ELSE /\ panicked' = panicked
            /\ IF name = <<>>
               THEN root' = <<AddHandler(rest)>> /\ cmds' = cmds
               ELSE cmds' = Put(cmds, name, AddHandler(rest)) /\ root' = root
    /\ ret' = NoErr
    /\ log' = <<>>
    /\ logErr' = <<>>
    /\ calls' = <<>>
    /\ last' = [op |-> "Add", name |-> name, rest |-> rest]
    /\ UNCHANGED <<exitOnError, exited>>

(***************************************************************************)
(* App.Run.                                                                *)
(***************************************************************************)
TokHelpShort == <<"-", "h">>
TokHelpLong  == <<"-", "-", "h", "e", "l", "p">>
TokHelpWord  == <<"h", "e", "l", "p">>
RootName     == <<"(", "r", "o", "o", "t", ")">>

\* (mutant) the word "help" is not taken as a help trigger
IsTopHelpDashOnly(tok) == tok \in {TokHelpShort, TokHelpLong}

\* (mutant) the word "help" is a help trigger after a command path too
IsCommandHelpWord(rawArgs) ==
    Len(rawArgs) > 0 /\ rawArgs[1] \in {TokHelpShort, TokHelpLong, TokHelpWord}

\* the help triggers before a command is matched, and after
IsTopHelp(tok) == tok \in {TokHelpShort, TokHelpLong, TokHelpWord}
IsCommandHelp(rawArgs) ==
    Len(rawArgs) > 0 /\ rawArgs[1] \in {TokHelpShort, TokHelpLong}

\* what printHelp and printCommandHelp write, as one entry of the sink
GlobalHelp(cmds_, root_) ==
    [ev |-> "global help", rootUsage |-> root_ # <<>>, commands |-> DOMAIN cmds_]
CommandHelp(name, h) ==
    [ev |-> "command help", name |-> name, handler |-> h]

\* printCommandHelp for a handler with a record parameter: the fields of its
\* record parameters
HelpFields(h) ==
    UNION { Range(StructFields(h.targs[i].st)) :
            i \in {j \in 1..Len(h.targs) : IsStructParam(h.targs[j])} }

\* the positional indices it collects from the arg tags, and maxPos
HelpPosMap(h) ==
    {AtoiValue(f.arg.v) : f \in {g \in HelpFields(h) : g.arg.has /\ ParseIntOk(g.arg.v)}}
HelpMaxPos(h) ==
    IF \E n \in HelpPosMap(h) : n > -1
    THEN CHOOSE n \in HelpPosMap(h) : \A m \in HelpPosMap(h) : m <= n
    ELSE -1

\* the indices of the entries of its Arguments block
HelpArguments(h) == 0..HelpMaxPos(h)

\* the rows of its Options block, in the order printed: the long name, the
\* short name ("" when none is shown) and whether the row is a flag.  The
\* first row is always -h|--help; then one row for every field without an arg
\* tag, parameter by parameter in field order.
HelpOptionRow(f) ==
    [long  |-> IF f.long.has /\ f.long.v # <<>> THEN f.long.v
               ELSE <<"-", "-">> \o toKebab(f.name),
     short |-> IF f.short.has /\ f.short.v # <<>> THEN f.short.v ELSE <<>>,
     flag  |-> isBoolField(f.type)]
HelpRow == [long |-> TokHelpLong, short |-> TokHelpShort, flag |-> TRUE]
HelpNamedFields(st) == SelectSeq(StructFields(st), LAMBDA g : ~g.arg.has)
HelpParamRows(t) ==
    IF IsStructParam(t)
    THEN [i \in 1..Len(HelpNamedFields(t.st)) |-> HelpOptionRow(HelpNamedFields(t.st)[i])]
    ELSE <<>>
RECURSIVE HelpFieldRows(_, _)
HelpFieldRows(h, i) ==
    IF i > Len(h.targs) THEN <<>>
    ELSE HelpParamRows(h.targs[i]) \o HelpFieldRows(h, i + 1)
HelpOptions(h) == <<HelpRow>> \o HelpFieldRows(h, 1)

\* the help Run shows before any command is matched
TopHelp(cmds_, root_) ==
    IF root_ # <<>> THEN CommandHelp(<<>>, root_[1]) ELSE GlobalHelp(cmds_, root_)

\* (mutant) a name token matches when it is a prefix of the input token
PrefixMatchPartial(tokens, args) ==
    \A i \in 1..Len(tokens) : HasPrefix(args[i], tokens[i])

\* whether a registered name's tokens are a prefix of args
PrefixMatch(tokens, args) ==
    \A i \in 1..Len(tokens) : args[i] = tokens[i]

\* the loop over a.cmds, visiting the names in the order the map yields them
RECURSIVE matchLoop(_, _, _, _)

\* (mutant) the first matching name the map yields is kept, whatever its length
matchLoopFirstMatch(cmds_, args, order, best) ==
    IF order = <<>> THEN best
    ELSE IF Len(Fields(Head(order))) = 0 \/ Len(Fields(Head(order))) > Len(args)
    THEN matchLoop(cmds_, args, Tail(order), best)
    ELSE IF PrefixMatch(Fields(Head(order)), args) /\ best.len = 0
    THEN matchLoop(cmds_, args, Tail(order),
                   [name |-> Head(order), h |-> <<cmds_[Head(order)]>>,
                    len |-> Len(Fields(Head(order)))])
    ELSE matchLoop(cmds_, args, Tail(order), best)

matchLoop(cmds_, args, order, best) ==
    IF order = <<>> THEN best
    ELSE LET name   == Head(order)
             tokens == Fields(name)
         IN  IF Len(tokens) = 0 \/ Len(tokens) > Len(args)
             THEN matchLoop(cmds_, args, Tail(order), best)
             ELSE IF PrefixMatch(tokens, args) /\ Len(tokens) > best.len
             THEN matchLoop(cmds_, args, Tail(order),
                            [name |-> name, h |-> <<cmds_[name]>>, len |-> Len(tokens)])
             ELSE matchLoop(cmds_, args, Tail(order), best)

NoBest == [name |-> <<>>, h |-> <<>>, len |-> 0]

usesStruct(targs) == \E i \in 1..Len(targs) : IsStructParam(targs[i])

Bound(parsed, ri, err) == [parsed |-> parsed, ri |-> ri, err |-> err]

StructValue(t, fields) ==
    IF t.ptr THEN PtrV([k |-> "struct", st |-> t.st, f |-> fields])
    ELSE [k |-> "struct", st |-> t.st, f |-> fields]

\* record mode: the parameters left to right from parameter i (1-based), ri
\* the 0-based cursor into rawArgs
RECURSIVE bindRecordMode(_, _, _, _, _, _)
RECURSIVE bindStructParam(_, _, _, _, _, _, _)
RECURSIVE bindPrimParam(_, _, _, _, _, _, _)

\* parameter i, a record, given the result r of parseStructArgs
bindStructParam(rawArgs, targs, bestName, i, ri, parsed, r) ==
    IF IsErr(r.err)
    THEN Bound(parsed, ri, [kind |-> "failed to parse struct arg", n |-> i,
                            name |-> bestName, cause |-> r.err])
    ELSE bindRecordMode(rawArgs, targs, bestName, i + 1, ri + r.consumed,
                        Append(parsed, StructValue(targs[i], r.sv)))

\* parameter i, a primitive, given the result r of parseValue
bindPrimParam(rawArgs, targs, bestName, i, ri, parsed, r) ==
    IF IsErr(r.err)
    THEN Bound(parsed, ri, [kind |-> "failed to parse arg", n |-> i,
                            name |-> bestName, cause |-> r.err])
    ELSE bindRecordMode(rawArgs, targs, bestName, i + 1, ri + 1, Append(parsed, r.v))

bindRecordMode(rawArgs, targs, bestName, i, ri, parsed) ==
    IF i > Len(targs) THEN Bound(parsed, ri, NoErr)
    ELSE IF IsStructParam(targs[i])
    THEN bindStructParam(rawArgs, targs, bestName, i, ri, parsed,
                         parseStructArgs(Drop(rawArgs, ri), Elem(targs[i])))
    ELSE IF ri >= Len(rawArgs)
    THEN Bound(parsed, ri, [kind |-> "not enough arguments", name |-> bestName,
                            want |-> Len(targs), got |-> Len(rawArgs)])
    ELSE bindPrimParam(rawArgs, targs, bestName, i, ri, parsed,
                       parseValue(rawArgs[ri + 1], targs[i]))

\* positional mode, after the unknown-option and count checks
RECURSIVE bindPositional(_, _, _, _, _)
RECURSIVE bindPositionalParam(_, _, _, _, _, _)

bindPositionalParam(rawArgs, targs, bestName, i, parsed, r) ==
    IF IsErr(r.err)
    THEN Bound(parsed, i - 1, [kind |-> "failed to parse arg", n |-> i,
                               name |-> bestName, cause |-> r.err])
    ELSE bindPositional(rawArgs, targs, bestName, i + 1, Append(parsed, r.v))

\* (mutant) every parameter is coerced from the first remaining token
bindPositionalFirstToken(rawArgs, targs, bestName, i, parsed) ==
    IF i > Len(targs) THEN Bound(parsed, Len(rawArgs), NoErr)
    ELSE bindPositionalParam(rawArgs, targs, bestName, i, parsed,
                             parseValue(rawArgs[1], targs[i]))

bindPositional(rawArgs, targs, bestName, i, parsed) ==
    IF i > Len(targs) THEN Bound(parsed, Len(rawArgs), NoErr)
    ELSE bindPositionalParam(rawArgs, targs, bestName, i, parsed,
                             parseValue(rawArgs[i], targs[i]))

LongOptionTokens(rawArgs) ==
    {i \in 1..Len(rawArgs) : HasPrefix(rawArgs[i], <<"-", "-">>)}
Least(S) == CHOOSE i \in S : \A j \in S : i <= j

\* (mutant) positional mode checks the argument count before the long options
bindCountFirst(h, rawArgs, bestName) ==
    IF usesStruct(h.targs)
    THEN bindRecordMode(rawArgs, h.targs, bestName, 1, 0, <<>>)
    ELSE IF Len(rawArgs) # Len(h.targs)
    THEN Bound(<<>>, 0, [kind |-> "wrong number of arguments", name |-> bestName,
                         want |-> Len(h.targs), got |-> Len(rawArgs)])
    ELSE IF LongOptionTokens(rawArgs) # {}
    THEN Bound(<<>>, 0, [kind |-> "unknown option",
                         tok |-> rawArgs[Least(LongOptionTokens(rawArgs))]])
    ELSE bindPositional(rawArgs, h.targs, bestName, 1, <<>>)

\* the binding step of Run: the parsed arguments, or the error
bind(h, rawArgs, bestName) ==
    IF usesStruct(h.targs)
    THEN bindRecordMode(rawArgs, h.targs, bestName, 1, 0, <<>>)
    ELSE IF LongOptionTokens(rawArgs) # {}
    THEN Bound(<<>>, 0, [kind |-> "unknown option",
                         tok |-> rawArgs[Least(LongOptionTokens(rawArgs))]])
    ELSE IF Len(rawArgs) # Len(h.targs)
    THEN Bound(<<>>, 0, [kind |-> "wrong number of arguments", name |-> bestName,
                         want |-> Len(h.targs), got |-> Len(rawArgs)])
    ELSE bindPositional(rawArgs, h.targs, bestName, 1, <<>>)

\* the outcome of one call of Run
Outcome(ret_, log_, logErr_, calls_, exited_, res) ==
    [ret |-> ret_, log |-> log_, logErr |-> logErr_, calls |-> calls_,
     exited |-> exited_, res |-> res]

\* (mutant) handleError exits whatever ExitOnError says
handleErrorExit(exitOnError_, err, res) ==
    Outcome(NoErr, <<>>, <<err>>, <<>>, TRUE, res)

\* handleError(err) for a non-nil err
handleError(exitOnError_, err, res) ==
    IF exitOnError_
    THEN Outcome(NoErr, <<>>, <<err>>, <<>>, TRUE, res)
    ELSE Outcome(err, <<>>, <<>>, <<>>, FALSE, res)

\* h.fn.Call(parsed) and the inspection of its last result
HandlerOutput(h, parsed) ==
    IF h.fn.writes
    THEN <<[ev |-> "handler output", by |-> h.fn.id, args |-> parsed]>>
    ELSE <<>>

invoke(h, parsed, res) ==
    IF h.expectsError /\ h.fn.result # "nil"
    THEN Outcome([kind |-> "handler error", by |-> h.fn.id], HandlerOutput(h, parsed),
                 <<>>, <<[fn |-> h.fn.id, args |-> parsed]>>, FALSE, res)
    ELSE Outcome(NoErr, HandlerOutput(h, parsed),
                 <<>>, <<[fn |-> h.fn.id, args |-> parsed]>>, FALSE, res)

\* how far Run got and the command it resolved
Resolved(step, bestName, bestLen, rawArgs) ==
    [step |-> step, bestName |-> bestName, bestLen |-> bestLen, rawArgs |-> rawArgs]

\* the end of Run, given the result b of the binding step
bindAndInvoke(exitOnError_, h, bestName, bestLen, rawArgs, b) ==
    IF IsErr(b.err)
    THEN handleError(exitOnError_, b.err, Resolved("bind", bestName, bestLen, rawArgs))
    ELSE invoke(h, b.parsed, Resolved("invoke", bestName, bestLen, rawArgs))

\* Run from the per-command help check on
runCommand(exitOnError_, h, bestName, bestLen, rawArgs) ==
    IF IsCommandHelp(rawArgs)
    THEN Outcome(NoErr, <<CommandHelp(bestName, h)>>, <<>>, <<>>, FALSE,
                 Resolved("command help", bestName, bestLen, rawArgs))
    ELSE bindAndInvoke(exitOnError_, h, bestName, bestLen, rawArgs,
                       bind(h, rawArgs, bestName))

\* (mutant) the root handler is handed the tokens after the first
dispatchRootStripped(root_, exitOnError_, args, best) ==
    IF best.len = 0
    THEN IF root_ # <<>>
         THEN runCommand(exitOnError_, root_[1], RootName, 0, Tail(args))
         ELSE handleError(exitOnError_, [kind |-> "unknown command", tok |-> args[1]],
                          Resolved("resolve", <<>>, 0, <<>>))
    ELSE runCommand(exitOnError_, best.h[1], best.name, best.len, Drop(args, best.len))

\* Run from the end of the matching loop on, best being the loop's result
dispatch(root_, exitOnError_, args, best) ==
    IF best.len = 0
    THEN IF root_ # <<>>
         THEN runCommand(exitOnError_, root_[1], RootName, 0, args)
         ELSE handleError(exitOnError_, [kind |-> "unknown command", tok |-> args[1]],
                          Resolved("resolve", <<>>, 0, <<>>))
    ELSE runCommand(exitOnError_, best.h[1], best.name, best.len, Drop(args, best.len))

\* Run on the tokens args, the map a.cmds being iterated in the order `order`
RunResult(cmds_, root_, exitOnError_, args, order) ==
    IF Len(args) = 0 \/ IsTopHelp(args[1])
    THEN Outcome(NoErr, <<TopHelp(cmds_, root_)>>, <<>>, <<>>, FALSE,
                 Resolved("top help", <<>>, 0, <<>>))
    ELSE dispatch(root_, exitOnError_, args, matchLoop(cmds_, args, order, NoBest))

\* the orders in which a range over the map can yield its keys
Orders(m) ==
    {o \in [1..Cardinality(DOMAIN m) -> DOMAIN m] :
        \A i, j \in DOMAIN o : i # j => o[i] # o[j]}

\* what a call of Run on args leaves behind, o being its outcome
Finish(args, o) ==
    /\ ret' = o.ret
    /\ log' = o.log
    /\ logErr' = o.logErr
    /\ calls' = o.calls
    /\ exited' = o.exited
    /\ last' = [op |-> "Run", args |-> args, res |-> o.res]

RunOn(args, order) ==
    Finish(args, RunResult(cmds, root, exitOnError, args, order))

\* The variadic parameter of Run is nil (Run() or Run(nil...)), written <<>>,
\* or a slice of tokens, an empty one too (Run([]string{}...)), written
\* <<tokens>>.
NilArgs == <<>>
ArgsOf(tokens) == <<tokens>>

\* App.Run(given...): when args is nil the tokens are os.Args[1:]; an empty
\* slice stays empty
Run(given, osArgsTail, order) ==
    /\ Running
    /\ order \in Orders(cmds)
    /\ RunOn(IF given = NilArgs THEN osArgsTail ELSE given[1], order)
    /\ UNCHANGED <<cmds, root, exitOnError, panicked>>

\* a second call of Run with the tokens of the call before it; the record of
\* the operation keeps what the first call left behind
FinishAgain(args, o) ==
    /\ ret' = o.ret
    /\ log' = o.log
    /\ logErr' = o.logErr
    /\ calls' = o.calls
    /\ exited' = o.exited
    /\ last' = [op |-> "RunAgain", args |-> args, res |-> o.res,
                first |-> [ret |-> ret, log |-> log, logErr |-> logErr,
                           calls |-> calls, exited |-> exited, res |-> last.res]]

RunAgain(order) ==
    /\ Running
    /\ last.op = "Run"
    /\ order \in Orders(cmds)
    /\ FinishAgain(last.args, RunResult(cmds, root, exitOnError, last.args, order))
    /\ UNCHANGED <<cmds, root, exitOnError, panicked>>

(***************************************************************************)
(* The programs explored: which handlers are registered and which tokens   *)
(* are run.                                                                *)
(***************************************************************************)
SeqsUpTo(S, n) == UNION {[1..k -> S] : k \in 0..n}

\* Add keeps the registry within MaxCmds commands
RoomFor(name) ==
    name = <<>> \/ name \in DOMAIN cmds \/ Cardinality(DOMAIN cmds) < MaxCmds

\* Run leaves the App as it found it and overwrites the record of the latest
\* operation, so one Run is explored from each state registration reaches.
Fresh == last.op # "Run"

\* the two ways of handing Run its tokens: as its arguments (whatever the
\* process was started with), or as the arguments of the process with Run()
OtherOsArgs == <<<<"z">>>>

RunWith(tokens, order) ==
    \/ Run(ArgsOf(tokens), OtherOsArgs, order)
    \/ Run(NilArgs, tokens, order)

\* handlers
FnPing == Func("ping", <<>>, <<>>, "nil", TRUE)
FnEcho == Func("echo", <<Prim("string")>>, <<>>, "nil", TRUE)
FnAdd  == Func("add", <<Prim("int"), Prim("int")>>, <<>>, "nil", TRUE)
FnFail == Func("fail", <<>>, <<"error">>, "error", FALSE)
FnOk   == Func("ok", <<>>, <<"int", "error">>, "nil", TRUE)
FnRaw  == Func("raw", <<Prim("uint")>>, <<>>, "nil", FALSE)

\* tokens
TokA     == <<"a">>
TokB     == <<"b">>
TokAB    == <<"a", "b">>
TokTwo   == <<"2">>
TokX     == <<"x">>
TokBogus == <<"-", "-", "b", "o", "g", "u", "s">>

HelpText == <<"H">>

(***************************************************************************)
(* SpecResolve: command resolution.  Names that share a prefix, names that *)
(* differ only in their spacing, a blank name and a name that is a help    *)
(* trigger; tokens that are names, parts of names and help triggers.       *)
(***************************************************************************)
NameA      == <<"a">>
NameAB     == <<"a", " ", "b">>
NameAB2    == <<"a", " ", " ", "b">>
NameBlank  == <<" ">>
NameHelp   == <<"h", "e", "l", "p">>

ResolveNames  == {<<>>, NameA, NameAB, NameAB2, NameBlank, NameHelp}
ResolveRests  == {<<FnPing>>, <<StringArg(HelpText), FnEcho>>, <<OtherArg>>}
ResolveTokens == {TokA, TokB, TokAB, TokHelpWord, TokHelpShort}

NextResolve ==
    \/ \E name \in ResolveNames, rest \in ResolveRests :
          RoomFor(name) /\ Add(name, rest)
    \/ \E tokens \in SeqsUpTo(ResolveTokens, MaxArgs), order \in Orders(cmds) :
          Fresh /\ RunWith(tokens, order)

SpecResolve == Init /\ [][NextResolve]_vars

(***************************************************************************)
(* SpecPositional: handlers whose parameters are all primitives, run on    *)
(* values, malformed values, long options and help triggers.               *)
(***************************************************************************)
NameAdd  == <<"a", "d", "d">>
NameEcho == <<"e", "c", "h", "o">>
NameFail == <<"f", "a", "i", "l">>
NameOk   == <<"o", "k">>
NameRaw  == <<"r", "a", "w">>

\* the registrations: a name and the arguments after it
PositionalAdds ==
    { <<NameAdd, <<FnAdd>>>>,
      <<NameEcho, <<StringArg(HelpText), FnEcho>>>>,
      <<NameFail, <<FnFail>>>>,
      <<NameOk, <<FnOk>>>>,
      <<NameRaw, <<FnRaw>>>>,
      <<<<>>, <<FnEcho>>>> }

\* the tokens tried after each command path (<<>>: no command named)
PositionalVocab(head) ==
    CASE head = <<NameAdd>>  -> {TokTwo, TokX, TokBogus, TokHelpShort}
      [] head = <<NameEcho>> -> {TokX, TokBogus, TokHelpShort, TokHelpLong, TokHelpWord}
      [] head = <<NameFail>> -> {TokX, TokHelpShort}
      [] head = <<NameOk>>   -> {TokX, TokHelpShort}
      [] head = <<NameRaw>>  -> {TokX}
      [] OTHER               -> {TokX, TokBogus}

PositionalHeads == {<<>>, <<NameAdd>>, <<NameEcho>>, <<NameFail>>, <<NameOk>>, <<NameRaw>>}

PositionalArgs ==
    UNION { {head \o rest : rest \in SeqsUpTo(PositionalVocab(head), MaxRest)} :
            head \in PositionalHeads }

NextPositional ==
    \/ \E a \in PositionalAdds : RoomFor(a[1]) /\ Add(a[1], a[2])
    \/ \E tokens \in PositionalArgs, order \in Orders(cmds) :
          Fresh /\ RunWith(tokens, order)

SpecPositional == Init /\ [][NextPositional]_vars

(***************************************************************************)
(* SpecRecord: handlers that take a record, run on the spellings of their  *)
(* options, with the primitive handlers whose binding can fail.            *)
(***************************************************************************)
NameCreate == <<"c", "r", "e", "a", "t", "e">>
NameOpt    == <<"o", "p", "t">>

FnCreate == Func("create", <<StructT("CreateTextArgs")>>, <<>>, "nil", FALSE)
FnOpt    == Func("opt", <<StructT("OptionalArgs")>>, <<>>, "nil", TRUE)

TokHello    == <<"h", "e", "l", "l", "o", ".", "t", "x", "t">>
TokOut      == <<"o", "u", "t", ".", "t", "x", "t">>
TokOutEq    == <<"-", "-", "o", "u", "t", "=", "o", "u", "t", ".", "t", "x", "t">>
TokOutLong  == <<"-", "-", "o", "u", "t">>
TokOutShort == <<"-", "o">>
TokMarkdown == <<"-", "-", "u", "s", "e", "m", "a", "r", "k", "d", "o", "w", "n">>
TokZero     == <<"0">>
TokOutputEq == <<"-", "-", "o", "u", "t", "p", "u", "t", "=">>
TokCount    == <<"-", "-", "c", "o", "u", "n", "t">>
TokDry      == <<"-", "d">>
TokDryFalse == <<"-", "-", "d", "r", "y", "-", "r", "u", "n", "=", "f", "a", "l", "s", "e">>

RecordAdds ==
    { <<NameCreate, <<FnCreate>>>>,
      <<NameOpt, <<FnOpt>>>>,
      <<NameAdd, <<FnAdd>>>>,
      <<NameRaw, <<FnRaw>>>> }

\* the tokens tried after each command path (<<>>: no command named): for a
\* record handler the positional token, then up to MaxOpts option tokens
CreateOptionTokens ==
    {TokOut, TokOutEq, TokOutLong, TokOutShort, TokMarkdown, TokBogus}
OptOptionTokens ==
    {TokZero, TokOutShort, TokOutputEq, TokCount, TokDry, TokDryFalse}

RecordRests(head) ==
    CASE head = <<NameCreate>> ->
           {<<>>} \cup {<<TokHello>> \o o : o \in SeqsUpTo(CreateOptionTokens, MaxOpts)}
      [] head = <<NameOpt>> ->
           {<<>>} \cup {<<TokZero>> \o o : o \in SeqsUpTo(OptOptionTokens, MaxOpts)}
      [] head = <<NameAdd>> -> SeqsUpTo({TokTwo, TokX, TokBogus}, MaxOpts)
      [] OTHER -> SeqsUpTo({TokX}, MaxOpts)

RecordHeads == {<<>>, <<NameCreate>>, <<NameOpt>>, <<NameAdd>>, <<NameRaw>>}

RecordArgs ==
    UNION { {head \o rest : rest \in RecordRests(head)} : head \in RecordHeads }

NextRecord ==
    \/ \E a \in RecordAdds : RoomFor(a[1]) /\ Add(a[1], a[2])
    \/ \E tokens \in RecordArgs, order \in Orders(cmds) :
          Fresh /\ RunWith(tokens, order)

SpecRecord == Init /\ [][NextRecord]_vars

(***************************************************************************)
(* SpecRepeat: Run called twice with the same tokens, on registries that   *)
(* hold paths sharing a prefix and paths that tokenize to the same tokens. *)
(***************************************************************************)
FnQuiet == Func("quiet", <<Prim("string")>>, <<>>, "nil", FALSE)

RepeatNames  == {<<>>, NameA, NameAB, NameAB2}
RepeatRests  == {<<FnPing>>, <<FnQuiet>>}
RepeatTokens == {TokA, TokB, TokX}

NextRepeat ==
    \/ \E name \in RepeatNames, rest \in RepeatRests :
          RoomFor(name) /\ Add(name, rest)
    \/ \E tokens \in SeqsUpTo(RepeatTokens, MaxArgs), order \in Orders(cmds) :
          last.op \notin {"Run", "RunAgain"} /\ RunWith(tokens, order)
    \/ \E order \in Orders(cmds) : RunAgain(order)

SpecRepeat == Init /\ [][NextRepeat]_vars

(***************************************************************************)
(* SpecMixed: a handler that takes a record and, after it, a primitive.    *)
(***************************************************************************)
NameMixed == <<"m", "i", "x", "e", "d">>

FnMixed == Func("mixed", <<StructT("CreateTextArgs"), Prim("int")>>, <<>>, "nil", TRUE)

MixedAdds == { <<NameMixed, <<FnMixed>>>>, <<NameCreate, <<FnCreate>>>> }

MixedOptionTokens == {TokOutEq, TokOutShort, TokOut, TokMarkdown, TokTwo}

MixedArgs ==
    {<<NameMixed>>, <<NameCreate>>}
        \cup {<<name, TokHello>> \o o :
                 name \in {NameMixed, NameCreate},
                 o \in SeqsUpTo(MixedOptionTokens, MaxOpts)}

NextMixed ==
    \/ \E a \in MixedAdds : RoomFor(a[1]) /\ Add(a[1], a[2])
    \/ \E tokens \in MixedArgs, order \in Orders(cmds) :
          Fresh /\ RunWith(tokens, order)

SpecMixed == Init /\ [][NextMixed]_vars

(***************************************************************************)
(* SpecScan: the option scan of a record handler on known and unknown      *)
(* names, with and without "=", and on tokens that are no options.         *)
(***************************************************************************)
TokBogusEq == <<"-", "-", "b", "o", "g", "u", "s", "=", "1">>
TokZ       == <<"-", "z">>
TokShortEq == <<"-", "o", "=", "o", "u", "t", ".", "t", "x", "t">>

ScanOptionTokens ==
    {TokBogusEq, TokBogus, TokZ, TokShortEq, TokOutEq, TokMarkdown, TokOut}

ScanArgs ==
    {<<NameCreate>>}
        \cup {<<NameCreate, TokHello>> \o o : o \in SeqsUpTo(ScanOptionTokens, MaxOpts)}

NextScan ==
    \/ Add(NameCreate, <<FnCreate>>)
    \/ \E tokens \in ScanArgs, order \in Orders(cmds) :
          Fresh /\ RunWith(tokens, order)

SpecScan == Init /\ [][NextScan]_vars

(***************************************************************************)
(* SpecFlags: a record with boolean, nullable boolean and valued fields.   *)
(***************************************************************************)
NameFlags == <<"f", "l", "a", "g", "s">>

FnFlags == Func("flags", <<StructT("FlagArgs")>>, <<>>, "nil", TRUE)

TokV       == <<"-", "v">>
TokVerbose == <<"-", "-", "v", "e", "r", "b", "o", "s", "e">>
TokQ       == <<"-", "q">>
TokQuiet   == <<"-", "-", "q", "u", "i", "e", "t">>
TokN       == <<"-", "n">>
TokFalse   == <<"f", "a", "l", "s", "e">>

FlagTokens == {TokV, TokVerbose, TokQ, TokQuiet, TokN, TokFalse}

FlagArgsRun ==
    {<<NameFlags>> \o o : o \in SeqsUpTo(FlagTokens, MaxOpts)}

NextFlags ==
    \/ Add(NameFlags, <<FnFlags>>)
    \/ \E tokens \in FlagArgsRun, order \in Orders(cmds) :
          Fresh /\ RunWith(tokens, order)

SpecFlags == Init /\ [][NextFlags]_vars

(***************************************************************************)
(* SpecGaps: a record whose positional indices have gaps.                  *)
(***************************************************************************)
NameGap == <<"g", "a", "p">>

FnGap == Func("gap", <<StructT("GapArgs")>>, <<>>, "nil", TRUE)

GapTokens == {TokA, TokB, TokX, TokV}

GapArgsRun ==
    {<<NameGap>> \o o : o \in SeqsUpTo(GapTokens, MaxOpts + 1)}

NextGaps ==
    \/ Add(NameGap, <<FnGap>>)
    \/ \E tokens \in GapArgsRun, order \in Orders(cmds) :
          Fresh /\ RunWith(tokens, order)

SpecGaps == Init /\ [][NextGaps]_vars

(***************************************************************************)
(* SpecHelp: the help of record handlers, and their binding.               *)
(***************************************************************************)
NameDual == <<"d", "u", "a", "l">>

FnDual == Func("dual", <<StructT("DualArgs")>>, <<>>, "nil", TRUE)

TokIn == <<"-", "-", "i", "n">>

HelpAdds ==
    { <<NameCreate, <<FnCreate>>>>,
      <<NameOpt, <<FnOpt>>>>,
      <<NameFlags, <<FnFlags>>>>,
      <<NameGap, <<FnGap>>>>,
      <<NameDual, <<FnDual>>>> }

HelpArgsRun ==
    {<<a[1]>> \o o : a \in HelpAdds,
                     o \in SeqsUpTo({TokHelpShort, TokHelpLong, TokX, TokIn}, MaxOpts)}

NextHelp ==
    \/ \E a \in HelpAdds : RoomFor(a[1]) /\ Add(a[1], a[2])
    \/ \E tokens \in HelpArgsRun, order \in Orders(cmds) :
          Fresh /\ RunWith(tokens, order)

SpecHelp == Init /\ [][NextHelp]_vars

(***************************************************************************)
(* SpecTrailing: a record handler run with tokens after its options.       *)
(***************************************************************************)
TokDash == <<"-">>

TrailingTokens == {TokDash, TokOut, TokBogus, TokMarkdown, TokHelpLong}

TrailingArgs ==
    {<<NameCreate, TokHello>> \o o : o \in SeqsUpTo(TrailingTokens, MaxOpts)}

NextTrailing ==
    \/ Add(NameCreate, <<FnCreate>>)
    \/ \E tokens \in TrailingArgs, order \in Orders(cmds) :
          Fresh /\ RunWith(tokens, order)

SpecTrailing == Init /\ [][NextTrailing]_vars

(***************************************************************************)
(* SpecDup: a record whose fields declare the same names.                  *)
(***************************************************************************)
NameDup == <<"d", "u", "p">>

FnDup == Func("dup", <<StructT("DupArgs")>>, <<>>, "nil", TRUE)

TokName   == <<"-", "-", "n", "a", "m", "e">>
TokNick   == <<"-", "-", "n", "i", "c", "k">>
TokNameEq == <<"-", "-", "n", "a", "m", "e", "=", "y">>

DupTokens == {TokName, TokN, TokNick, TokNameEq, TokX}

DupArgsRun ==
    {<<NameDup>> \o o : o \in SeqsUpTo(DupTokens, MaxOpts + 1)}

NextDup ==
    \/ Add(NameDup, <<FnDup>>)
    \/ \E tokens \in DupArgsRun, order \in Orders(cmds) :
          Fresh /\ RunWith(tokens, order)

SpecDup == Init /\ [][NextDup]_vars

(***************************************************************************)
(* SpecRegistry: names registered again, the root handler and a blank name *)
(***************************************************************************)
TokBlank == <<" ">>

RegistryNames  == {<<>>, NameA, NameAB, NameBlank}
RegistryRests  == {<<FnPing>>, <<FnQuiet>>, <<StringArg(HelpText), FnPing>>, <<OtherArg>>}
RegistryTokens == {TokA, TokB, TokX, TokBlank}

NextRegistry ==
    \/ \E name \in RegistryNames, rest \in RegistryRests :
          RoomFor(name) /\ Add(name, rest)
    \/ \E tokens \in SeqsUpTo(RegistryTokens, MaxArgs), order \in Orders(cmds) :
          Fresh /\ RunWith(tokens, order)

SpecRegistry == Init /\ [][NextRegistry]_vars

(***************************************************************************)
(* SpecCursor: record-mode handlers with a primitive before the record,    *)
(* one after it, and two records.                                          *)
(***************************************************************************)
NamePre == <<"p", "r", "e">>
NameTwo == <<"t", "w", "o">>

FnPre == Func("pre", <<Prim("string"), StructT("CreateTextArgs")>>, <<>>, "nil", TRUE)
FnTwo == Func("two", <<StructT("CreateTextArgs"), PtrStruct("CreateTextArgs")>>,
              <<>>, "nil", TRUE)

CursorAdds ==
    { <<NameMixed, <<FnMixed>>>>, <<NamePre, <<FnPre>>>>, <<NameTwo, <<FnTwo>>>> }

CursorTokens == {TokTwo, TokOutShort, TokOutEq, TokMarkdown}

CursorArgs ==
    {<<name>> \o o : name \in {NameMixed, NamePre, NameTwo},
                     o \in SeqsUpTo(CursorTokens, MaxOpts + 1)}

NextCursor ==
    \/ \E a \in CursorAdds : RoomFor(a[1]) /\ Add(a[1], a[2])
    \/ \E tokens \in CursorArgs, order \in Orders(cmds) :
          Fresh /\ RunWith(tokens, order)

SpecCursor == Init /\ [][NextCursor]_vars

(***************************************************************************)
(* Properties.  They are stated of the state a call of Run leaves behind:  *)
(* last holds the tokens and the command resolved, ret / log / logErr /    *)
(* calls / exited what the call did.                                       *)
(***************************************************************************)
AfterRun == last.op = "Run"

FirstIsHelp ==
    last.args[1] \in {<<"-", "h">>, <<"-", "-", "h", "e", "l", "p">>, <<"h", "e", "l", "p">>}

\* a command was looked up: there are tokens and the first is no help trigger
LookedUp == AfterRun /\ Len(last.args) > 0 /\ ~FirstIsHelp

TokensArePrefix(tokens, args) ==
    Len(tokens) <= Len(args) /\ SubSeq(args, 1, Len(tokens)) = tokens

\* the registered non-root names whose tokens are a prefix of the input
MatchingNames ==
    {n \in DOMAIN cmds : Fields(n) # <<>> /\ TokensArePrefix(Fields(n), last.args)}

\* a command or the root handler was resolved
Dispatched == last.res.step \in {"command help", "bind", "invoke"}

\* the error of a failed Run, however it was delivered
FailureErr ==
    IF exitOnError THEN (IF logErr # <<>> THEN logErr[1] ELSE NoErr) ELSE ret

\* Run failed: the error was returned, or with ExitOnError written and the
\* exit requested; no handler ran
Failed ==
    /\ IsErr(FailureErr)
    /\ calls = <<>>
    /\ exitOnError => exited /\ ret = NoErr
    /\ ~exitOnError => ~exited /\ logErr = <<>>

\* C1: when some registered non-root name's tokens are a prefix of the input,
\* Run dispatches to such a name with the greatest token count and hands it the
\* tokens after that prefix; with "a" and "a b" registered, an input beginning
\* a, b goes to the path a b and never to "a"; tokens match by equality only.
C1_LongestPrefixMatch ==
    LookedUp =>
        /\ (Dispatched /\ last.res.bestLen > 0) => last.res.bestName \in MatchingNames
        /\ MatchingNames # {} =>
            /\ Dispatched
            /\ last.res.bestName \in MatchingNames
            /\ last.res.bestLen = Len(Fields(last.res.bestName))
            /\ \A n \in MatchingNames : Len(Fields(n)) <= last.res.bestLen
            /\ last.res.rawArgs = SubSeq(last.args, last.res.bestLen + 1, Len(last.args))
            /\ calls # <<>> => calls[1].fn = cmds[last.res.bestName].fn.id
            /\ ( /\ {NameA, NameAB} \subseteq DOMAIN cmds
                 /\ TokensArePrefix(<<TokA, TokB>>, last.args) )
               => /\ Fields(last.res.bestName) = <<TokA, TokB>>
                  /\ last.res.rawArgs = SubSeq(last.args, 3, Len(last.args))
                  /\ NameAB2 \notin DOMAIN cmds => last.res.bestName = NameAB

C1_Witness ==
    /\ {NameA, NameAB} \subseteq DOMAIN cmds
    /\ AfterRun
    /\ last.args = <<TokA, TokB, TokAB>>
    /\ last.res.bestName = NameAB
    /\ calls = <<[fn |-> "echo", args |-> <<StrV(TokAB)>>]>>

\* C6: on an empty token sequence, or a first token -h, --help or help, no
\* handler is invoked, the root handler's help (the global help if there is no
\* root handler) is written to the normal sink and Run returns nil, whatever
\* ExitOnError is and whatever tokens follow.
C6_TopHelpBypassesMatching ==
    (AfterRun /\ (Len(last.args) = 0 \/ FirstIsHelp)) =>
        /\ calls = <<>>
        /\ ret = NoErr
        /\ ~exited
        /\ logErr = <<>>
        /\ Len(log) = 1
        /\ IF root # <<>>
           THEN log[1].ev = "command help" /\ log[1].name = <<>> /\ log[1].handler = root[1]
           ELSE log[1].ev = "global help" /\ log[1].commands = DOMAIN cmds

C6_Witness ==
    /\ AfterRun
    /\ NameHelp \in DOMAIN cmds
    /\ last.args = <<TokHelpWord, TokA>>
    /\ exitOnError
    /\ root = <<>>
    /\ calls = <<>>
    /\ log # <<>>

\* C8: when no registered non-root name matches a prefix of the input, the root
\* handler, if registered, is used with the whole token sequence as its
\* remaining tokens; with no root handler Run fails with an unknown-command
\* error naming the first token and no handler is invoked.
C8_RootFallbackOrUnknownCommand ==
    (LookedUp /\ MatchingNames = {}) =>
        IF root # <<>>
        THEN /\ last.res.step \in {"bind", "invoke"}
             /\ last.res.bestLen = 0
             /\ last.res.rawArgs = last.args
             /\ calls # <<>> =>
                   /\ calls[1].fn = root[1].fn.id
                   /\ Len(calls[1].args) = Len(last.args)
                   /\ \A i \in 1..Len(last.args) : calls[1].args[i] = StrV(last.args[i])
        ELSE /\ Failed
             /\ FailureErr.kind = "unknown command"
             /\ FailureErr.tok = last.args[1]

C8_Witness ==
    /\ AfterRun
    /\ DOMAIN cmds = {NameAB}
    /\ root # <<>>
    /\ last.args = <<TokA>>
    /\ calls = <<[fn |-> "echo", args |-> <<StrV(TokA)>>]>>

\* the handler Run resolved, the tokens left for it, its parameter types
ResolvedHandler ==
    IF last.res.bestLen = 0 THEN root[1] ELSE cmds[last.res.bestName]
RawArgs == last.res.rawArgs
ParamTypes == ResolvedHandler.targs

\* Run resolved a handler whose parameters are all primitives
PositionalMode ==
    /\ AfterRun
    /\ Dispatched
    /\ \A i \in 1..Len(ParamTypes) : ParamTypes[i].kind # "struct"

StartsLong(tok) == Len(tok) >= 2 /\ tok[1] = "-" /\ tok[2] = "-"
LongIndexes == {i \in 1..Len(RawArgs) : StartsLong(RawArgs[i])}

HelpAfterCommand ==
    Len(RawArgs) > 0 /\ RawArgs[1] \in {<<"-", "h">>, <<"-", "-", "h", "e", "l", "p">>}

\* what a token is expected to coerce to (strings, and unsigned integers
\* written without leading zeros, are the values the positional handlers take)
AllDigits(tok) ==
    /\ Len(tok) > 0
    /\ \A i \in 1..Len(tok) : tok[i] \in {"0", "1", "2", "3", "4", "5", "6", "7", "8", "9"}
CoercesTo(tok, t) ==
    \/ t = Prim("string")
    \/ t = Prim("int") /\ AllDigits(tok)
ExpectedValue(tok, t) ==
    IF t = Prim("string") THEN [k |-> "string", v |-> tok]
    ELSE [k |-> "int", v |-> [neg |-> FALSE, mag |-> tok]]

ArgsFit ==
    /\ Len(RawArgs) = Len(ParamTypes)
    /\ \A i \in 1..Len(ParamTypes) : CoercesTo(RawArgs[i], ParamTypes[i])

\* the handler ran once, the i-th token bound to its i-th parameter
InvokedPositionally ==
    /\ Len(calls) = 1
    /\ calls[1].fn = ResolvedHandler.fn.id
    /\ Len(calls[1].args) = Len(ParamTypes)
    /\ \A i \in 1..Len(ParamTypes) :
          calls[1].args[i] = ExpectedValue(RawArgs[i], ParamTypes[i])

\* C2: with ExitOnError set, a non-nil error returned by the handler is written
\* to the error sink and exit with status 1 is requested, like a binding or
\* resolution failure.
C2_HandlerErrorExits ==
    ( /\ AfterRun
      /\ exitOnError
      /\ last.res.step = "invoke"
      /\ ResolvedHandler.expectsError
      /\ ResolvedHandler.fn.result = "error" )
    => /\ exited
       /\ Len(logErr) = 1
       /\ logErr[1].kind = "handler error"

C2_Witness ==
    /\ AfterRun
    /\ exitOnError
    /\ last.args = <<NameFail>>
    /\ calls = <<[fn |-> "fail", args |-> <<>>]>>
    /\ ret.kind = "handler error"
    /\ ~exited
    /\ logErr = <<>>

\* C3 as stated: in positional mode with no token beginning with "--", the
\* handler is invoked iff the token count equals the parameter count and every
\* token coerces; otherwise Run fails, the handler is not invoked and nothing
\* is written to the normal sink.
C3_Original ==
    (PositionalMode /\ LongIndexes = {}) =>
        /\ ArgsFit => InvokedPositionally
        /\ ~ArgsFit => Failed /\ log = <<>>

\* C3 (amended): the same, for remaining tokens that do not begin with -h:
\* the handler is invoked, once and with the i-th token bound to the i-th
\* parameter, iff the counts are equal and every token coerces; otherwise Run
\* fails (the error returned, or with ExitOnError written to the error sink and
\* exit requested), no handler runs and nothing is written to the normal sink.
C3_PositionalArity ==
    (PositionalMode /\ LongIndexes = {} /\ ~HelpAfterCommand) =>
        /\ ArgsFit => InvokedPositionally
        /\ ~ArgsFit => Failed /\ log = <<>>

C3_Witness ==
    /\ AfterRun
    /\ last.args = <<NameAdd, TokTwo, TokTwo>>
    /\ Len(calls) = 1
    /\ calls[1].args = <<IntV(IntNumeral(TokTwo)), IntV(IntNumeral(TokTwo))>>
    /\ Len(log) = 1

\* C5: in positional mode, when some remaining token begins with "--" and the
\* first is not -h / --help, Run fails with an unknown-option error naming the
\* first such token, whether or not the counts are equal; no handler runs.
C5_UnknownOptionFirst ==
    (PositionalMode /\ LongIndexes # {} /\ ~HelpAfterCommand) =>
        /\ Failed
        /\ log = <<>>
        /\ FailureErr.kind = "unknown option"
        /\ FailureErr.tok = RawArgs[CHOOSE i \in LongIndexes : \A j \in LongIndexes : i <= j]

C5_Witness ==
    /\ AfterRun
    /\ last.args = <<NameEcho, TokX, TokHelpLong, TokBogus>>
    /\ ~exitOnError
    /\ ret.kind = "unknown option"
    /\ ret.tok = TokHelpLong

\* C7: after a command path, a first remaining token -h or --help renders the
\* command's help: nothing is bound or invoked and Run returns nil.  The word
\* help there, and -h / --help further on, are not help triggers: the word help
\* is bound as an ordinary argument.
C7_CommandHelp ==
    (AfterRun /\ Dispatched) =>
        /\ HelpAfterCommand =>
              /\ last.res.step = "command help"
              /\ log = <<[ev |-> "command help", name |-> last.res.bestName,
                          handler |-> ResolvedHandler]>>
              /\ calls = <<>>
              /\ ret = NoErr
              /\ ~exited
              /\ logErr = <<>>
        /\ ~HelpAfterCommand =>
              /\ last.res.step # "command help"
              /\ \A i \in 1..Len(log) : log[i].ev # "command help"
        /\ (RawArgs = <<TokHelpWord>> /\ ParamTypes = <<Prim("string")>>) =>
              calls = <<[fn |-> ResolvedHandler.fn.id, args |-> <<StrV(TokHelpWord)>>]>>

C7_Witness ==
    /\ AfterRun
    /\ last.args = <<NameAdd, TokHelpShort, TokX>>
    /\ last.res.step = "command help"
    /\ ret = NoErr
    /\ calls = <<>>

\* the command lines that spell: input hello.txt, output out.txt, markdown on
OutSpellings == {<<TokOutEq>>, <<TokOutLong, TokOut>>, <<TokOutShort, TokOut>>}
Spellings ==
    {<<TokHello>> \o o \o <<TokMarkdown>> : o \in OutSpellings}
        \cup {<<TokHello, TokMarkdown>> \o o : o \in OutSpellings}

\* C4: for the record handler with a positional field, a valued option with a
\* long and a short name, and a flag, every spelling of the same command line
\* (--long=value, --long value, -s value; the flag before or after) binds the
\* same record, and the handler is invoked once with it.
C4_SpellingsBindSameRecord ==
    ( /\ AfterRun
      /\ Dispatched
      /\ ResolvedHandler.fn.id = "create"
      /\ RawArgs \in Spellings )
    => /\ calls = <<[fn |-> "create",
                     args |-> <<[k |-> "struct", st |-> "CreateTextArgs",
                                 f |-> <<[k |-> "string", v |-> TokHello],
                                         [k |-> "string", v |-> TokOut],
                                         [k |-> "bool", v |-> TRUE]>>]>>]>>
       /\ ret = NoErr
       /\ ~exited

C4_Witness ==
    /\ AfterRun
    /\ last.args = <<NameCreate, TokHello, TokMarkdown, TokOutShort, TokOut>>
    /\ Len(calls) = 1
    /\ calls[1].args[1].f[2] = StrV(TokOut)
    /\ calls[1].args[1].f[3] = BoolV(TRUE)

\* the failure a command line of SpecRecord must end in ("none": no failure
\* is required of it), read off the tokens and the registry
ExpectedFailure ==
    CASE LookedUp /\ MatchingNames = {} /\ root = <<>> -> "unknown command"
      [] Dispatched /\ ResolvedHandler.fn.id = "add" /\ LongIndexes # {} -> "unknown option"
      [] Dispatched /\ ResolvedHandler.fn.id = "add" /\ LongIndexes = {}
            /\ Len(RawArgs) # 2 -> "wrong number of arguments"
      [] Dispatched /\ ResolvedHandler.fn.id = "add" /\ LongIndexes = {}
            /\ Len(RawArgs) = 2 /\ TokX \in {RawArgs[1], RawArgs[2]} -> "syntax"
      [] Dispatched /\ ResolvedHandler.fn.id = "raw" /\ Len(RawArgs) = 1
            -> "unsupported parameter type"
      [] Dispatched /\ ResolvedHandler.fn.id \in {"create", "opt"} /\ RawArgs = <<>>
            -> "not enough positional args"
      [] Dispatched /\ ResolvedHandler.fn.id = "create"
            /\ RawArgs \in {<<TokHello, TokOutLong>>, <<TokHello, TokOutShort>>}
            -> "missing value"
      [] OTHER -> "none"

\* the innermost error of a wrapped error
RootCause(e) ==
    IF "cause" \notin DOMAIN e THEN e
    ELSE IF "cause" \notin DOMAIN e.cause THEN e.cause
    ELSE e.cause.cause

\* C9: with ExitOnError false, every binding or resolution failure is returned
\* by Run as a non-nil error: no handler is invoked, nothing is written to
\* either sink and exit is not requested.
C9_FailuresReturned ==
    (AfterRun /\ ~exitOnError) =>
        /\ ~exited
        /\ logErr = <<>>
        /\ last.res.step \in {"resolve", "bind"} =>
              IsErr(ret) /\ calls = <<>> /\ log = <<>>
        /\ ExpectedFailure # "none" =>
              /\ last.res.step \in {"resolve", "bind"}
              /\ RootCause(ret).kind = ExpectedFailure

C9_Witness ==
    /\ AfterRun
    /\ ~exitOnError
    /\ last.args = <<NameCreate, TokHello, TokOutLong>>
    /\ ret.kind = "failed to parse struct arg"
    /\ ret.cause.kind = "missing value"
    /\ calls = <<>>
    /\ ~exited

\* the option scan as the command line reads: from token i, an option name
\* without "=" that takes a value spans two tokens, any other dash token one,
\* and the first token that is no option ends it
HasEq(tok) == \E j \in 1..Len(tok) : tok[j] = "="
EqAt(tok) == CHOOSE j \in 1..Len(tok) : tok[j] = "=" /\ \A k \in 1..(j - 1) : tok[k] # "="
NameOf(tok) ==
    IF StartsLong(tok) /\ HasEq(tok) THEN SubSeq(tok, 1, EqAt(tok) - 1) ELSE tok
ValuedNames ==
    {<<"-", "o">>, <<"-", "-", "o", "u", "t", "p", "u", "t">>, <<"-", "-", "c", "o", "u", "n", "t">>}

RECURSIVE ScanHeads(_, _)
ScanHeads(raw, i) ==
    IF i > Len(raw) THEN {}
    ELSE IF ~(Len(raw[i]) >= 2 /\ raw[i][1] = "-") THEN {}
    ELSE IF raw[i] \in ValuedNames THEN {i} \cup ScanHeads(raw, i + 2)
    ELSE {i} \cup ScanHeads(raw, i + 1)

\* the names of the nullable fields of OptionalArgs (fields 2, 3 and 4)
FieldNames(fi) ==
    CASE fi = 2 -> {<<"-", "o">>, <<"-", "-", "o", "u", "t", "p", "u", "t">>}
      [] fi = 3 -> {<<"-", "-", "c", "o", "u", "n", "t">>}
      [] fi = 4 -> {<<"-", "d">>, <<"-", "-", "d", "r", "y", "-", "r", "u", "n">>}

\* the tokens of the scan that address field fi
Addressing(raw, fi) == {i \in ScanHeads(raw, 2) : NameOf(raw[i]) \in FieldNames(fi)}

\* the text supplied with the option at i
SuppliedText(raw, i) ==
    IF StartsLong(raw[i]) /\ HasEq(raw[i])
    THEN SubSeq(raw[i], EqAt(raw[i]) + 1, Len(raw[i]))
    ELSE raw[i + 1]

\* the value supplied for field fi by the option at i
SuppliedValue(raw, fi, i) ==
    CASE fi = 2 -> [k |-> "string", v |-> SuppliedText(raw, i)]
      [] fi = 3 -> [k |-> "int", v |-> [neg |-> FALSE, mag |-> SuppliedText(raw, i)]]
      [] fi = 4 -> [k |-> "bool",
                    v |-> IF HasEq(raw[i])
                          THEN SuppliedText(raw, i) = <<"t", "r", "u", "e">>
                          ELSE TRUE]

ExpectedField(raw, fi) ==
    IF Addressing(raw, fi) = {} THEN [k |-> "nil"]
    ELSE [k |-> "ptr",
          v |-> SuppliedValue(raw, fi,
                    CHOOSE i \in Addressing(raw, fi) : \A j \in Addressing(raw, fi) : j <= i)]

\* C10: after a successful record bind a nullable field is nil iff no token of
\* the option scan addressed it; an addressed one holds a pointer to the value
\* coerced from its latest occurrence, so a supplied zero value ("--count 0",
\* "--output=") is distinct from an omitted one, and omission is no error.
C10_NullableAbsentIffUnaddressed ==
    (AfterRun /\ Dispatched /\ ResolvedHandler.fn.id = "opt") =>
        /\ Len(calls) = 1 =>
              \A fi \in {2, 3, 4} : calls[1].args[1].f[fi] = ExpectedField(RawArgs, fi)
        /\ RawArgs = <<TokZero>> => Len(calls) = 1 /\ ret = NoErr

C10_Witness ==
    /\ AfterRun
    /\ last.args = <<NameOpt, TokZero, TokCount, TokZero, TokOutputEq>>
    /\ Len(calls) = 1
    /\ calls[1].args[1].f[2] = PtrV(StrV(<<>>))
    /\ calls[1].args[1].f[3] = PtrV(IntV(IntNumeral(TokZero)))
    /\ calls[1].args[1].f[4] = Nil

\* the registered names that are longest matches of the input
LongestMatches ==
    {n \in MatchingNames :
        \A m \in MatchingNames : Len(Fields(m)) <= Len(Fields(n))}

\* what the second of two calls of Run left is what the first left
SameOutcome ==
    /\ last.first.res = last.res
    /\ last.first.ret = ret
    /\ last.first.calls = calls
    /\ last.first.log = log
    /\ last.first.logErr = logErr
    /\ last.first.exited = exited

RunKeepsApp ==
    last'.op \in {"Run", "RunAgain"} => UNCHANGED <<cmds, root, exitOnError>>

\* C11 as stated: for every registry and every token sequence, a second Run
\* with the same tokens selects the same handler, binds the same values and
\* returns the same outcome; Run leaves registry, root and options unchanged.
C11_Original ==
    [](last.op = "RunAgain" => SameOutcome) /\ [][RunKeepsApp]_vars

\* C11 (amended): the same, for every input whose longest match is a single
\* registered path: when two registered paths tokenize to the same tokens and
\* are the longest match, the map's iteration order picks one of them on each
\* call.  Run leaves registry, root and options unchanged.
C11_RepeatedRun ==
    []((last.op = "RunAgain" /\ Cardinality(LongestMatches) <= 1) => SameOutcome)
        /\ [][RunKeepsApp]_vars

C11_Witness ==
    /\ last.op = "RunAgain"
    /\ last.args = <<TokA, TokB, TokX>>
    /\ DOMAIN cmds = {NameA, NameAB}
    /\ last.res.bestName = NameAB
    /\ calls = <<[fn |-> "quiet", args |-> <<StrV(TokX)>>]>>
    /\ last.first.calls = calls

\* where the option scan of a CreateTextArgs record ends when it starts at
\* token i: a name that takes a value spans two tokens, any other dash token
\* one, and the first token that is no option ends it
CreateValuedNames == {<<"-", "-", "o", "u", "t">>, <<"-", "o">>}

RECURSIVE ScanEnd(_, _)
ScanEnd(raw, i) ==
    IF i > Len(raw) THEN i
    ELSE IF ~(Len(raw[i]) >= 2 /\ raw[i][1] = "-") THEN i
    ELSE IF raw[i] \in CreateValuedNames THEN ScanEnd(raw, i + 2)
    ELSE ScanEnd(raw, i + 1)

\* C12: the record binder's consumed count covers the positional tokens and
\* the tokens of the option scan, so the parameter declared after a record
\* parameter is bound from the first token the option scan left unconsumed.
C12_CursorPastOptionScan ==
    ( /\ AfterRun
      /\ Dispatched
      /\ ResolvedHandler.fn.id = "mixed"
      /\ Len(RawArgs) >= 1
      /\ ScanEnd(RawArgs, 2) <= Len(RawArgs)
      /\ AllDigits(RawArgs[ScanEnd(RawArgs, 2)]) )
    => /\ Len(calls) = 1
       /\ calls[1].args[2] = [k |-> "int",
                              v |-> [neg |-> FALSE, mag |-> RawArgs[ScanEnd(RawArgs, 2)]]]

C12_Witness ==
    /\ AfterRun
    /\ ~exitOnError
    /\ last.args = <<NameMixed, TokHello, TokMarkdown, TokTwo>>
    /\ calls = <<>>
    /\ ret.kind = "failed to parse arg"
    /\ ret.n = 2
    /\ ret.cause.tok = TokMarkdown

\* the tokens the option scan of a CreateTextArgs record takes as options
\* when it starts at token i
RECURSIVE CreateHeads(_, _)
CreateHeads(raw, i) ==
    IF i > Len(raw) THEN {}
    ELSE IF ~(Len(raw[i]) >= 2 /\ raw[i][1] = "-") THEN {}
    ELSE IF raw[i] \in CreateValuedNames THEN {i} \cup CreateHeads(raw, i + 2)
    ELSE {i} \cup CreateHeads(raw, i + 1)

\* the option tokens CreateTextArgs does not know: a long name without "=",
\* or a single-dash token, that is none of its names
CreateLongNames == {<<"-", "-", "o", "u", "t">>,
                    <<"-", "-", "u", "s", "e", "m", "a", "r", "k", "d", "o", "w", "n">>}
UnknownName(tok) ==
    IF StartsLong(tok) THEN ~HasEq(tok) /\ tok \notin CreateLongNames
    ELSE tok # <<"-", "o">>

UnknownHeads == {i \in CreateHeads(RawArgs, 2) : UnknownName(RawArgs[i])}
HeadTokens == {RawArgs[i] : i \in CreateHeads(RawArgs, 2)}

\* C13: in the option scan a --name=value token with an unknown name is
\* skipped (no error, no field changed, the scan goes on, the handler is
\* invoked), whereas an unknown --name without "=" and an unknown single-dash
\* token (also of the form -o=value) fail with an unknown-option error and the
\* handler is not invoked.
C13_UnknownAssignedSkipped ==
    ( /\ AfterRun
      /\ Dispatched
      /\ ResolvedHandler.fn.id = "create"
      /\ Len(RawArgs) >= 1
      /\ HeadTokens \subseteq ScanOptionTokens )
    => /\ UnknownHeads # {} =>
             /\ Failed
             /\ log = <<>>
             /\ RootCause(FailureErr).kind = "unknown option"
             /\ RootCause(FailureErr).tok =
                   RawArgs[CHOOSE i \in UnknownHeads : \A j \in UnknownHeads : i <= j]
       /\ UnknownHeads = {} =>
             /\ ret = NoErr
             /\ ~exited
             /\ Len(calls) = 1
             /\ calls[1].args[1].f =
                   << [k |-> "string", v |-> RawArgs[1]],
                      [k |-> "string", v |-> IF TokOutEq \in HeadTokens THEN TokOut ELSE <<>>],
                      [k |-> "bool", v |-> TokMarkdown \in HeadTokens] >>

C13_Witness ==
    /\ AfterRun
    /\ last.args = <<NameCreate, TokHello, TokBogusEq, TokMarkdown>>
    /\ ret = NoErr
    /\ Len(calls) = 1
    /\ calls[1].args[1].f = <<StrV(TokHello), StrV(<<>>), BoolV(TRUE)>>

\* the tokens the option scan of a FlagArgs record takes as options when it
\* starts at token i: only the names of Name take a value
FlagValuedNames == {<<"-", "n">>, <<"-", "-", "n", "a", "m", "e">>}

RECURSIVE FlagHeads(_, _)
FlagHeads(raw, i) ==
    IF i > Len(raw) THEN {}
    ELSE IF ~(Len(raw[i]) >= 2 /\ raw[i][1] = "-") THEN {}
    ELSE IF raw[i] \in FlagValuedNames THEN {i} \cup FlagHeads(raw, i + 2)
    ELSE {i} \cup FlagHeads(raw, i + 1)

NameHeads == {i \in FlagHeads(RawArgs, 1) : RawArgs[i] \in FlagValuedNames}

\* C14: a bool or nullable bool field is a zero-argument flag, with or without
\* a flag tag: its long or short name token makes it true and takes one token,
\* so the token after it is never its value and is processed in its own right.
C14_BoolFieldsAreFlags ==
    ( /\ AfterRun
      /\ Dispatched
      /\ ResolvedHandler.fn.id = "flags"
      /\ \A i \in NameHeads : i < Len(RawArgs) )
    => /\ ret = NoErr
       /\ Len(calls) = 1
       /\ calls[1].args[1].f[1] =
             [k |-> "bool",
              v |-> \E i \in FlagHeads(RawArgs, 1) : RawArgs[i] \in {TokV, TokVerbose}]
       /\ calls[1].args[1].f[2] =
             IF \E i \in FlagHeads(RawArgs, 1) : RawArgs[i] \in {TokQ, TokQuiet}
             THEN [k |-> "ptr", v |-> [k |-> "bool", v |-> TRUE]]
             ELSE [k |-> "nil"]
       /\ calls[1].args[1].f[3] =
             [k |-> "string",
              v |-> IF NameHeads = {} THEN <<>>
                    ELSE RawArgs[(CHOOSE i \in NameHeads : \A j \in NameHeads : j <= i) + 1]]

C14_Witness ==
    /\ AfterRun
    /\ last.args = <<NameFlags, TokQ, TokN, TokFalse>>
    /\ Len(calls) = 1
    /\ calls[1].args[1].f = <<BoolV(FALSE), PtrV(BoolV(TRUE)), StrV(TokFalse)>>

\* the positional indices GapArgs declares, in ascending order
GapIndices == <<0, 2, 5>>

\* C15: the positional pass takes the declared indices in ascending order:
\* each uses exactly one token, whatever it looks like, a gap uses none, so
\* the field with the k-th smallest index gets the k-th token and the pass
\* uses as many tokens as there are positional fields; when the tokens run out
\* at a declared index the bind fails naming that position.
C15_PositionalPass ==
    (AfterRun /\ Dispatched /\ ResolvedHandler.fn.id = "gap") =>
        /\ Len(RawArgs) < Len(GapIndices) =>
              /\ Failed
              /\ RootCause(FailureErr).kind = "not enough positional args"
              /\ RootCause(FailureErr).pos = GapIndices[Len(RawArgs) + 1]
        /\ Len(RawArgs) >= Len(GapIndices) =>
              /\ ret = NoErr
              /\ Len(calls) = 1
              /\ calls[1].args[1].f =
                    << [k |-> "string", v |-> RawArgs[3]],
                       [k |-> "string", v |-> RawArgs[1]],
                       [k |-> "string", v |-> RawArgs[2]],
                       [k |-> "bool",
                        v |-> Len(RawArgs) > 3 /\ RawArgs[4] = <<"-", "v">>] >>

C15_Witness ==
    /\ AfterRun
    /\ last.args = <<NameGap, TokV, TokA, TokB, TokV>>
    /\ Len(calls) = 1
    /\ calls[1].args[1].f = <<StrV(TokB), StrV(TokV), StrV(TokA), BoolV(TRUE)>>

\* the record type of the handler whose help was rendered, the names the
\* binder accepts for it and the indices at which its positional pass uses a
\* token
HelpShown == log[1].handler
HelpRecord == Elem(HelpShown.targs[1])
AcceptedLong == DOMAIN buildFieldMaps(HelpRecord).long
AcceptedShort == DOMAIN buildFieldMaps(HelpRecord).short
ConsumingIndices == {p \in DOMAIN buildFieldMaps(HelpRecord).pos : p >= 0}

\* the rows of the Options block after its first row, -h|--help, which Run
\* serves itself before it binds
ShownRows == Range(Tail(HelpOptions(HelpShown)))

\* C16: the help rendered for a record handler shows, in its Options block
\* (after the -h|--help row), exactly the long and short names the binder
\* accepts for the record, and in its Arguments block exactly the indices at
\* which the binder uses a token.
C16_HelpMatchesBinder ==
    (AfterRun /\ last.res.step = "command help") =>
        /\ HelpOptions(HelpShown)[1] = HelpRow
        /\ {r.long : r \in ShownRows} = AcceptedLong
        /\ {r.short : r \in ShownRows} \ {<<>>} = AcceptedShort
        /\ HelpArguments(HelpShown) = ConsumingIndices

C16_Witness ==
    /\ AfterRun
    /\ last.args = <<NameDual, TokHelpShort>>
    /\ last.res.step = "command help"
    /\ TokIn \in AcceptedLong
    /\ HelpOptions(HelpShown)[1] = HelpRow
    /\ TokIn \notin {r.long : r \in ShownRows}

\* C17: in record mode the option scan ends, without an error, at the first
\* token that does not begin with a dash or is "-"; the tokens left over once
\* every parameter is bound are ignored, however many and whatever they are:
\* the handler is invoked and Run returns its outcome.
C17_TrailingTokensIgnored ==
    ( /\ AfterRun
      /\ Dispatched
      /\ ResolvedHandler.fn.id = "create"
      /\ Len(RawArgs) >= 1
      /\ ScanEnd(RawArgs, 2) <= Len(RawArgs)
      /\ \A i \in CreateHeads(RawArgs, 2) : RawArgs[i] = TokMarkdown )
    => /\ ret = NoErr
       /\ ~exited
       /\ logErr = <<>>
       /\ calls = <<[fn |-> "create",
                     args |-> <<[k |-> "struct", st |-> "CreateTextArgs",
                                 f |-> <<[k |-> "string", v |-> RawArgs[1]],
                                         [k |-> "string", v |-> <<>>],
                                         [k |-> "bool",
                                          v |-> CreateHeads(RawArgs, 2) # {}]>>]>>]>>

C17_Witness ==
    /\ AfterRun
    /\ last.args = <<NameCreate, TokHello, TokMarkdown, TokDash, TokBogus>>
    /\ ret = NoErr
    /\ Len(calls) = 1
    /\ calls[1].args[1].f = <<StrV(TokHello), StrV(<<>>), BoolV(TRUE)>>

\* the tokens the option scan of a DupArgs record takes as options (every
\* name of the record takes a value)
RECURSIVE DupHeads(_, _)
DupHeads(raw, i) ==
    IF i > Len(raw) THEN {}
    ELSE IF ~(Len(raw[i]) >= 2 /\ raw[i][1] = "-") THEN {}
    ELSE IF HasEq(raw[i]) THEN {i} \cup DupHeads(raw, i + 1)
    ELSE {i} \cup DupHeads(raw, i + 2)

DupNamed(names) == {i \in DupHeads(RawArgs, 1) : NameOf(RawArgs[i]) \in names}

DupLast(names) == CHOOSE i \in DupNamed(names) : \A j \in DupNamed(names) : j <= i

\* C18: fields declaring the same long or short name raise no error at Add or
\* at binding; the name belongs to the field declared last: a token with it
\* sets that field only, and the fields declared earlier keep their unset value.
C18_LastDeclaredFieldWins ==
    ( /\ AfterRun
      /\ Dispatched
      /\ ResolvedHandler.fn.id = "dup"
      /\ \A i \in DupHeads(RawArgs, 1) : HasEq(RawArgs[i]) \/ i < Len(RawArgs) )
    => /\ ret = NoErr
       /\ panicked = ""
       /\ Len(calls) = 1
       /\ calls[1].args[1].f[1] = [k |-> "string", v |-> <<>>]
       /\ calls[1].args[1].f[2] =
             [k |-> "string",
              v |-> IF DupNamed({TokName}) = {} THEN <<>>
                    ELSE SuppliedText(RawArgs, DupLast({TokName}))]
       /\ calls[1].args[1].f[3] =
             IF DupNamed({TokN, TokNick}) = {} THEN [k |-> "nil"]
             ELSE [k |-> "ptr",
                   v |-> [k |-> "string",
                          v |-> SuppliedText(RawArgs, DupLast({TokN, TokNick}))]]

C18_Witness ==
    /\ AfterRun
    /\ last.args = <<NameDup, TokN, TokX, TokName, TokX>>
    /\ ret = NoErr
    /\ Len(calls) = 1
    /\ calls[1].args[1].f = <<StrV(<<>>), StrV(TokX), PtrV(StrV(TokX))>>

\* the handler an Add that does not panic registers: the function passed last,
\* with the help text passed before it, if any
Registered(rest) ==
    [fn |-> rest[Len(rest)],
     targs |-> rest[Len(rest)].in,
     expectsError |-> FALSE,
     help |-> IF Len(rest) = 2 THEN rest[1].s ELSE <<>>]

\* after an Add that returned, its name holds the handler it passed
LatestAddHeld ==
    (last.op = "Add" /\ panicked = "") =>
        IF last.name = <<>> THEN root = <<Registered(last.rest)>>
        ELSE last.name \in DOMAIN cmds /\ cmds[last.name] = Registered(last.rest)

\* an Add changes the entry of its own name only
AddKeepsOthers ==
    last'.op = "Add" =>
        /\ DOMAIN cmds' \subseteq DOMAIN cmds \cup {last'.name}
        /\ \A n \in DOMAIN cmds \ {last'.name} : n \in DOMAIN cmds' /\ cmds'[n] = cmds[n]
        /\ last'.name # <<>> => root' = root
        /\ last'.name = <<>> => cmds' = cmds
        /\ <<>> \notin DOMAIN cmds'
        /\ Len(root') <= 1

\* Run goes to the entry the registry holds, and never to a blank name
RunUsesRegistry ==
    LookedUp =>
        /\ Cardinality(LongestMatches) = 1 =>
              Dispatched /\ last.res.bestName \in LongestMatches
        /\ (MatchingNames = {} /\ root # <<>>) => Dispatched /\ last.res.bestLen = 0
        /\ (MatchingNames = {} /\ root = <<>>) =>
              Failed /\ FailureErr.kind = "unknown command"
        /\ Dispatched =>
              /\ last.res.bestLen > 0 => last.res.bestName \in MatchingNames
              /\ Fields(last.res.bestName) # <<>>
              /\ \A i \in 1..Len(calls) : calls[i].fn = ResolvedHandler.fn.id

\* C19: after any Adds the registry holds one handler per non-empty name and at
\* most one root handler, each the one the latest Add of that name passed; an
\* Add leaves the entries of other names alone; Run dispatches to the entry
\* held; a name of white space only is a non-root entry no input resolves to.
C19_RegistryHoldsLatestAdd ==
    [](LatestAddHeld /\ RunUsesRegistry) /\ [][AddKeepsOthers]_vars

C19_Witness ==
    /\ AfterRun
    /\ last.args = <<TokBlank>>
    /\ DOMAIN cmds = {NameA, NameBlank}
    /\ cmds[NameBlank].fn.id = "ping"
    /\ root # <<>>
    /\ root[1].fn.id = "quiet"
    /\ last.res.bestLen = 0
    /\ calls = <<[fn |-> "quiet", args |-> <<StrV(TokBlank)>>]>>

\* the tokens of the scan of a CreateTextArgs record that name Output, and
\* those among them that take their value from the next token
OutHeads == {i \in CreateHeads(RawArgs, 2) : NameOf(RawArgs[i]) \in CreateValuedNames}
OutNameHeads == {i \in OutHeads : ~HasEq(RawArgs[i])}
LastOutHead == CHOOSE i \in OutHeads : \A j \in OutHeads : j <= i

\* C20: a known non-boolean option without "=" takes the token after it as its
\* value whatever that token looks like, also a known option name, and the scan
\* goes on two tokens later; the bind fails with a missing-value error only
\* when the option name is the last token; of several occurrences of an option
\* the last one gives the value bound.
C20_NextTokenIsValue ==
    ( /\ AfterRun
      /\ Dispatched
      /\ ResolvedHandler.fn.id = "create"
      /\ Len(RawArgs) >= 1
      /\ ~FirstIsHelp
      /\ last.res.step # "command help"
      /\ UnknownHeads = {} )
    => IF \E i \in OutNameHeads : i = Len(RawArgs)
       THEN /\ Failed
            /\ RootCause(FailureErr).kind = "missing value"
            /\ RootCause(FailureErr).tok = RawArgs[Len(RawArgs)]
       ELSE /\ ret = NoErr
            /\ calls = <<[fn |-> "create",
                          args |-> <<[k |-> "struct", st |-> "CreateTextArgs",
                                      f |-> <<[k |-> "string", v |-> RawArgs[1]],
                                              [k |-> "string",
                                               v |-> IF OutHeads = {} THEN <<>>
                                                     ELSE SuppliedText(RawArgs, LastOutHead)],
                                              [k |-> "bool",
                                               v |-> \E i \in CreateHeads(RawArgs, 2) :
                                                        RawArgs[i] = TokMarkdown]>>]>>]>>

C20_Witness ==
    /\ AfterRun
    /\ last.args = <<NameCreate, TokHello, TokOutEq, TokOutShort, TokMarkdown>>
    /\ ret = NoErr
    /\ Len(calls) = 1
    /\ calls[1].args[1].f = <<StrV(TokHello), StrV(TokMarkdown), BoolV(FALSE)>>

\* the binding step of record mode after its first k parameters: the cursor
\* ri it has reached and the error, if one stopped it
RiAfter(rawArgs, targs, k) ==
    bindRecordMode(rawArgs, SubSeq(targs, 1, k), <<>>, 1, 0, <<>>)

\* the binder's counter after the positions 0..p of its first pass
ConsumedAfter(raw, t, p) ==
    positionalPass(raw, StructFields(t.st), buildFieldMaps(t).pos, 0, p,
                   NewStruct(StructFields(t.st)))

MaxPosition(t) ==
    IF DOMAIN buildFieldMaps(t).pos = {} THEN -1 ELSE MaxKey(buildFieldMaps(t).pos)

\* the values the index i of the option scan takes, from the value i on
RECURSIVE ScanIndexes(_, _, _, _, _)
ScanIndexesNext(raw, fs, maps, o) ==
    IF IsErr(o.err) THEN <<>> ELSE ScanIndexes(raw, fs, maps, o.next, o.sv)

ScanIndexes(raw, fs, maps, i, sv) ==
    <<i>> \o
    (IF i >= Len(raw) \/ ~IsOptionToken(raw[i + 1]) THEN <<>>
     ELSE ScanIndexesNext(raw, fs, maps, optionToken(raw, fs, maps, i, raw[i + 1], sv)))

BinderScan(raw, t) ==
    ScanIndexes(raw, StructFields(t.st), buildFieldMaps(t),
                ConsumedAfter(raw, t, MaxPosition(t)).consumed,
                ConsumedAfter(raw, t, MaxPosition(t)).sv)

\* one call of the binder on the tokens raw: its counter and its scan index
\* only grow and stay within the tokens, and so does the count it reports
BinderCursorsWithin(raw, t) ==
    /\ ConsumedAfter(raw, t, -1).consumed = 0
    /\ \A p \in 0..MaxPosition(t) :
          /\ ConsumedAfter(raw, t, p - 1).consumed <= ConsumedAfter(raw, t, p).consumed
          /\ ConsumedAfter(raw, t, p).consumed <= Len(raw)
    /\ parseStructArgs(raw, t).consumed \in 0..Len(raw)
    /\ ~IsErr(ConsumedAfter(raw, t, MaxPosition(t)).err) =>
          /\ \A j \in 1..Len(BinderScan(raw, t)) : BinderScan(raw, t)[j] \in 0..Len(raw)
          /\ \A j \in 1..(Len(BinderScan(raw, t)) - 1) :
                BinderScan(raw, t)[j] < BinderScan(raw, t)[j + 1]

\* the parameters record mode reaches: those before which no error occurred
ParamsReached ==
    {k \in 1..Len(ParamTypes) : ~IsErr(RiAfter(RawArgs, ParamTypes, k - 1).err)}

\* the primitive parameters that were given a token, and the token's index
PrimBound ==
    {k \in ParamsReached :
        ~IsStructParam(ParamTypes[k])
        /\ RiAfter(RawArgs, ParamTypes, k - 1).ri < Len(RawArgs)}

\* C21: in record mode the parameter cursor, the binder's positional counter
\* and the binder's option-scan index only increase and never exceed the
\* number of tokens available; the consumed count the binder reports lies
\* between 0 and the number of tokens it was handed; so no index outside the
\* remaining tokens is read and no token is bound to two primitive parameters.
C21_CursorsWithinTokens ==
    ( /\ AfterRun
      /\ Dispatched
      /\ last.res.step # "command help"
      /\ usesStruct(ParamTypes) )
    => /\ RiAfter(RawArgs, ParamTypes, 0).ri = 0
       /\ \A k \in ParamsReached :
             /\ RiAfter(RawArgs, ParamTypes, k - 1).ri <= RiAfter(RawArgs, ParamTypes, k).ri
             /\ RiAfter(RawArgs, ParamTypes, k).ri <= Len(RawArgs)
             /\ IsStructParam(ParamTypes[k]) =>
                   BinderCursorsWithin(Drop(RawArgs, RiAfter(RawArgs, ParamTypes, k - 1).ri),
                                       Elem(ParamTypes[k]))
       /\ \A k1, k2 \in PrimBound :
             k1 # k2 => RiAfter(RawArgs, ParamTypes, k1 - 1).ri
                           # RiAfter(RawArgs, ParamTypes, k2 - 1).ri

C21_Witness ==
    /\ AfterRun
    /\ last.args = <<NamePre, TokTwo, TokTwo, TokOutShort, TokMarkdown>>
    /\ Dispatched
    /\ ResolvedHandler.fn.id = "pre"
    /\ RiAfter(RawArgs, ParamTypes, 1).ri = 1
    /\ RiAfter(RawArgs, ParamTypes, 2).ri = 2
    /\ BinderScan(Drop(RawArgs, 1), Elem(ParamTypes[2])) = <<1, 3>>
    /\ calls = <<[fn |-> "pre",
                  args |-> <<StrV(TokTwo),
                             [k |-> "struct", st |-> "CreateTextArgs",
                              f |-> <<StrV(TokTwo), StrV(TokMarkdown), BoolV(FALSE)>>]>>]>>
====
